---- MODULE Spec2Model ----
(***************************************************************************)
(* A model of ocireg-mcp: an MCP server exposing four tools that query an  *)
(* OCI registry.  Strings are TLA+ strings; the Go string functions the    *)
(* code calls (strings.HasPrefix, strings.TrimPrefix, strconv.Atoi,        *)
(* fmt.Sprintf, json.MarshalIndent) are operators computed on them.        *)
(***************************************************************************)
EXTENDS Integers, Sequences, FiniteSets, TLC

(***************************************************************************)
(* Bounds of the model.                                                    *)
(***************************************************************************)
\* Longest MCP_PORT value enumerated.
MaxPortLen == 5
\* Longest tag sequence the registry returns.
MaxTags == 2
\* Largest number of layers of a manifest.
MaxLayers == 2

(***************************************************************************)
(* Go string helpers.                                                      *)
(***************************************************************************)
\* The absent value: an unset variable, a missing argument, a nil pointer.
Nil == "<nil>"

Char(s, i) == SubSeq(s, i, i)

HasPrefix(s, prefix) ==
    /\ Len(s) >= Len(prefix)
    /\ SubSeq(s, 1, Len(prefix)) = prefix

TrimPrefix(s, prefix) ==
    IF HasPrefix(s, prefix) THEN SubSeq(s, Len(prefix) + 1, Len(s)) ELSE s

\* strings.Contains, as the tests' assert.Contains uses it.
Contains(s, sub) ==
    \E i \in 1..(Len(s) - Len(sub) + 1) : SubSeq(s, i, i + Len(sub) - 1) = sub

\* All strings over alphabet of length at most n.
RECURSIVE StringsUpTo(_, _)
StringsUpTo(alphabet, n) ==
    IF n = 0 THEN {""}
    ELSE LET shorter == StringsUpTo(alphabet, n - 1)
         IN  shorter \cup {s \o c : s \in shorter, c \in alphabet}

(***************************************************************************)
(* Process environment and request headers.                                *)
(***************************************************************************)
\* os.Getenv: the value of the variable, "" when it is unset.
Getenv(environ, name) == IF environ[name] = Nil THEN "" ELSE environ[name]

\* http.Header.Get: the first value of the key, "" when there is none.
HeaderGet(headers, key) ==
    IF headers[key] = <<>> THEN "" ELSE headers[key][1]

\* The Authorization header values a request may carry.
AuthorizationValues ==
    { <<>>, <<"Bearer tokA">>, <<"Bearer tokB">>, <<"Bearer ">>,
      <<"bearer tokA">>, <<"Basic dXNlcjpwdw==">>, <<"Bearer tokB", "Bearer tokA">> }

Headers == [Authorization : AuthorizationValues]

\* The credential variables of the process environment.
Environments ==
    [OCI_TOKEN : {Nil, "envtok"}, OCI_USERNAME : {"", "user"},
     OCI_PASSWORD : {Nil, "pw"}]

(***************************************************************************)
(* pkg/oci: authentication options and the client.                         *)
(***************************************************************************)
WithBearerToken(token) ==
    [kind |-> "auth", type |-> "Bearer", token |-> token,
     username |-> "", password |-> ""]

WithBasicAuth(username, password) ==
    [kind |-> "auth", type |-> "Basic", token |-> "",
     username |-> username, password |-> password]

WithDefaultKeychain ==
    [kind |-> "auth", type |-> "DefaultKeychain", token |-> "",
     username |-> "", password |-> ""]

NewClient(options) == [options |-> options]

(***************************************************************************)
(* cmd/server: credential resolution.  The operator yields the client and  *)
(* the lines the resolution logs.                                          *)
(***************************************************************************)
bearerPrefix == "Bearer "

\* A resolver in which OCI_TOKEN takes precedence over the request's header.
CreateOCIClientEnvFirst(headers, environ) ==
    LET authHeader == HeaderGet(headers, "Authorization")
        token == Getenv(environ, "OCI_TOKEN")
        username == Getenv(environ, "OCI_USERNAME")
        password == Getenv(environ, "OCI_PASSWORD")
    IN  IF token # ""
        THEN [client |-> NewClient(<<WithBearerToken(token)>>),
              log |-> <<"Using bearer token from OCI_TOKEN environment variable for OCI registry">>]
        ELSE IF authHeader # "" /\ HasPrefix(authHeader, bearerPrefix)
        THEN [client |-> NewClient(<<WithBearerToken(TrimPrefix(authHeader, bearerPrefix))>>),
              log |-> <<"Using bearer token from Authorization header for OCI registry">>]
        ELSE IF username # "" /\ password # ""
        THEN [client |-> NewClient(<<WithBasicAuth(username, password)>>),
              log |-> <<"Using username/password authentication for OCI registry">>]
        ELSE [client |-> NewClient(<<WithDefaultKeychain>>),
              log |-> <<"Using default keychain for OCI registry authentication">>]

\* A resolver whose log line for a header token shows the token.
CreateOCIClientLoggingToken(headers, environ) ==
    LET authHeader == HeaderGet(headers, "Authorization")
        token == Getenv(environ, "OCI_TOKEN")
        username == Getenv(environ, "OCI_USERNAME")
        password == Getenv(environ, "OCI_PASSWORD")
    IN  IF authHeader # "" /\ HasPrefix(authHeader, bearerPrefix)
        THEN [client |-> NewClient(<<WithBearerToken(TrimPrefix(authHeader, bearerPrefix))>>),
              log |-> <<"Using bearer token " \o TrimPrefix(authHeader, bearerPrefix)
                        \o " from Authorization header for OCI registry">>]
        ELSE IF token # ""
        THEN [client |-> NewClient(<<WithBearerToken(token)>>),
              log |-> <<"Using bearer token from OCI_TOKEN environment variable for OCI registry">>]
        ELSE IF username # "" /\ password # ""
        THEN [client |-> NewClient(<<WithBasicAuth(username, password)>>),
              log |-> <<"Using username/password authentication for OCI registry">>]
        ELSE [client |-> NewClient(<<WithDefaultKeychain>>),
              log |-> <<"Using default keychain for OCI registry authentication">>]

CreateOCIClientFromHeaders(headers, environ) ==
    LET authHeader == HeaderGet(headers, "Authorization")
        token == Getenv(environ, "OCI_TOKEN")
        username == Getenv(environ, "OCI_USERNAME")
        password == Getenv(environ, "OCI_PASSWORD")
    IN  IF authHeader # "" /\ HasPrefix(authHeader, bearerPrefix)
        THEN [client |-> NewClient(<<WithBearerToken(TrimPrefix(authHeader, bearerPrefix))>>),
              log |-> <<"Using bearer token from Authorization header for OCI registry">>]
        ELSE IF token # ""
        THEN [client |-> NewClient(<<WithBearerToken(token)>>),
              log |-> <<"Using bearer token from OCI_TOKEN environment variable for OCI registry">>]
        ELSE IF username # "" /\ password # ""
        THEN [client |-> NewClient(<<WithBasicAuth(username, password)>>),
              log |-> <<"Using username/password authentication for OCI registry">>]
        ELSE [client |-> NewClient(<<WithDefaultKeychain>>),
              log |-> <<"Using default keychain for OCI registry authentication">>]

(***************************************************************************)
(* go-containerregistry name parsing, as pkg/oci calls it.                 *)
(***************************************************************************)
LowerAlnum ==
    {"a","b","c","d","e","f","g","h","i","j","k","l","m","n","o","p","q","r",
     "s","t","u","v","w","x","y","z","0","1","2","3","4","5","6","7","8","9"}

RepositoryChars == LowerAlnum \cup {"_", "-", ".", "/"}

TagChars ==
    LowerAlnum \cup {"_", "-", "."}
        \cup {"A","B","C","D","E","F","G","H","I","J","K","L","M","N","O","P",
              "Q","R","S","T","U","V","W","X","Y","Z"}

AllCharsIn(s, chars) == \A i \in 1..Len(s) : Char(s, i) \in chars

\* The position of the last occurrence of the one-character string c, or 0.
LastIndex(s, c) ==
    LET at == {i \in 1..Len(s) : Char(s, i) = c}
    IN  IF at = {} THEN 0 ELSE CHOOSE i \in at : \A j \in at : j <= i

\* The position of the first occurrence of the one-character string c, or 0.
FirstIndex(s, c) ==
    LET at == {i \in 1..Len(s) : Char(s, i) = c}
    IN  IF at = {} THEN 0 ELSE CHOOSE i \in at : \A j \in at : i <= j

\* name.NewRepository: the first path component is the registry when it
\* holds a dot or a colon, the rest is the repository, of 2 to 255 of the
\* repository characters; [ok, err].
NewRepository(repoName) ==
    LET slash == FirstIndex(repoName, "/")
        first == SubSeq(repoName, 1, slash - 1)
        hasRegistry == slash > 0 /\ (Contains(first, ".") \/ Contains(first, ":"))
        repo == IF hasRegistry THEN SubSeq(repoName, slash + 1, Len(repoName)) ELSE repoName
    IN  IF repoName = ""
        THEN [ok |-> FALSE, err |-> "a repository name must be specified"]
        ELSE IF ~AllCharsIn(repo, RepositoryChars)
        THEN [ok |-> FALSE,
              err |-> "repository can only contain the characters a-z0-9_-./: " \o repo]
        ELSE IF Len(repo) < 2 \/ Len(repo) > 255
        THEN [ok |-> FALSE,
              err |-> "repository must be between 2 and 255 characters in length: " \o repo]
        ELSE IF hasRegistry /\ ~AllCharsIn(first, LowerAlnum \cup {".", ":", "-"})
        THEN [ok |-> FALSE,
              err |-> "registries must be valid RFC 3986 URI authorities: " \o first]
        ELSE [ok |-> TRUE, err |-> Nil]

\* name.ParseReference: a repository with an optional :tag after its last
\* path component; [ok, err].
ParseReference(imageRef) ==
    LET colon == LastIndex(imageRef, ":")
        slash == LastIndex(imageRef, "/")
        tagged == colon > slash
        base == IF tagged THEN SubSeq(imageRef, 1, colon - 1) ELSE imageRef
        tag == IF tagged THEN SubSeq(imageRef, colon + 1, Len(imageRef)) ELSE "latest"
    IN  IF NewRepository(base).ok /\ tag # "" /\ AllCharsIn(tag, TagChars)
        THEN [ok |-> TRUE, err |-> Nil]
        ELSE [ok |-> FALSE, err |-> "could not parse reference: " \o imageRef]

(***************************************************************************)
(* mcp-go: requests and results.                                           *)
(***************************************************************************)
GetImageInfoToolName == "get_image_info"
ListTagsToolName == "list_tags"
GetImageManifestToolName == "get_image_manifest"
GetImageConfigToolName == "get_image_config"

ToolNames ==
    {GetImageInfoToolName, ListTagsToolName, GetImageManifestToolName,
     GetImageConfigToolName}

\* The required string argument each tool declares.
RequiredArg(tool) == IF tool = ListTagsToolName THEN "repository" ELSE "image_ref"

\* mcp.ParseString: the argument's value, the default when it is missing.
ParseString(request, key, default) ==
    IF request.argName = key /\ request.argValue # Nil
    THEN request.argValue ELSE default

NewToolResultError(text) == [isNil |-> FALSE, isError |-> TRUE, text |-> text]

NewToolResultErrorFromErr(label, err) ==
    [isNil |-> FALSE, isError |-> TRUE, text |-> label \o ": " \o err]

NewToolResultText(text) == [isNil |-> FALSE, isError |-> FALSE, text |-> text]

NilResult == [isNil |-> TRUE, isError |-> FALSE, text |-> ""]

\* A handler that returns its failures as Go errors.
ReturnGoError(result) ==
    IF result.isError
    THEN [result |-> [isNil |-> TRUE, isError |-> FALSE, text |-> ""], err |-> result.text]
    ELSE [result |-> result, err |-> Nil]

\* What a handler returns: (result, nil).
Return(result) == [result |-> result, err |-> Nil]

(***************************************************************************)
(* encoding/json: MarshalIndent(v, "", "  ").  A JSON value is a tagged     *)
(* tuple: a string, a number, an array of values, or an object given as    *)
(* the sequence of its <<key, value>> members in encoding order.           *)
(***************************************************************************)
JStr(s) == <<"s", s>>
JNum(n) == <<"n", n>>
JArr(elems) == <<"a", elems>>
JObj(members) == <<"o", members>>

RECURSIVE JoinLines(_)
\* The strings of a sequence, separated by ",\n".
JoinLines(parts) ==
    IF Len(parts) = 0 THEN ""
    ELSE IF Len(parts) = 1 THEN parts[1]
    ELSE parts[1] \o ",\n" \o JoinLines(Tail(parts))

RECURSIVE Encode(_, _)
Encode(v, indent) ==
    LET inner == indent \o "  "
    IN  CASE v[1] = "s" -> "\"" \o v[2] \o "\""
          [] v[1] = "n" -> ToString(v[2])
          [] v[1] = "a" ->
                IF Len(v[2]) = 0 THEN "[]"
                ELSE "[\n"
                     \o JoinLines([k \in 1..Len(v[2]) |-> inner \o Encode(v[2][k], inner)])
                     \o "\n" \o indent \o "]"
          [] v[1] = "o" ->
                IF Len(v[2]) = 0 THEN "{}"
                ELSE "{\n"
                     \o JoinLines([k \in 1..Len(v[2]) |->
                            inner \o "\"" \o v[2][k][1] \o "\": " \o Encode(v[2][k][2], inner)])
                     \o "\n" \o indent \o "}"

\* json.MarshalIndent: [ok, text, err].
MarshalIndent(v) == [ok |-> TRUE, text |-> Encode(v, ""), err |-> Nil]

\* The keys of the maps the handlers encode, in the byte order in which
\* encoding/json writes the keys of a map.
MapKeyOrder == <<"architecture", "created", "digest", "layers", "os", "size">>

\* A map[string]interface{} as the object encoding/json makes of it.
MapToJSON(m) ==
    LET keys == SelectSeq(MapKeyOrder, LAMBDA k : k \in DOMAIN m)
    IN  JObj([i \in 1..Len(keys) |-> <<keys[i], m[keys[i]]>>])

(***************************************************************************)
(* time.Time.Format, for the layout elements the code uses.                *)
(***************************************************************************)
Pad(n, width) ==
    LET digits == ToString(n)
    IN  (IF width - Len(digits) >= 3 THEN "000"
         ELSE IF width - Len(digits) = 2 THEN "00"
         ELSE IF width - Len(digits) = 1 THEN "0" ELSE "") \o digits

\* The zone of layout element Z07:00: Z for UTC, else the signed offset.
FormatZone(offset) ==
    IF offset = 0 THEN "Z"
    ELSE LET abs == IF offset < 0 THEN -offset ELSE offset
         IN  (IF offset < 0 THEN "-" ELSE "+")
             \o Pad(abs \div 60, 2) \o ":" \o Pad(abs % 60, 2)

RECURSIVE Format(_, _)
Format(t, layout) ==
    LET rest(n) == Format(t, SubSeq(layout, n + 1, Len(layout)))
    IN  IF layout = "" THEN ""
        ELSE IF HasPrefix(layout, "2006") THEN Pad(t.year, 4) \o rest(4)
        ELSE IF HasPrefix(layout, "Z07:00") THEN FormatZone(t.offset) \o rest(6)
        ELSE IF HasPrefix(layout, "01") THEN Pad(t.month, 2) \o rest(2)
        ELSE IF HasPrefix(layout, "02") THEN Pad(t.day, 2) \o rest(2)
        ELSE IF HasPrefix(layout, "15") THEN Pad(t.hour, 2) \o rest(2)
        ELSE IF HasPrefix(layout, "04") THEN Pad(t.minute, 2) \o rest(2)
        ELSE IF HasPrefix(layout, "05") THEN Pad(t.second, 2) \o rest(2)
        ELSE Char(layout, 1) \o rest(1)

(***************************************************************************)
(* What the registry holds: images and tag lists.                          *)
(***************************************************************************)
\* config.Created values: the zero time, and a time with a zone offset.
ZeroTime ==
    [year |-> 1, month |-> 1, day |-> 1, hour |-> 0, minute |-> 0,
     second |-> 0, offset |-> 0]

OffsetTime ==
    [year |-> 2024, month |-> 2, day |-> 29, hour |-> 13, minute |-> 5,
     second |-> 9, offset |-> -330]

\* An image of n layers created at t; decodes says whether its manifest
\* is well-formed JSON.
Image(n, t, decodes) ==
    [manifestOK |-> decodes,
     manifest |->
        [config |-> [digest |-> "sha256:c" \o ToString(n), size |-> 1000 + n],
         layers |-> [k \in 1..n |-> [digest |-> "sha256:l" \o ToString(k), size |-> 10 * k]]],
     config |-> [architecture |-> "amd64", os |-> "linux", created |-> t]]

Images ==
    {Image(n, ZeroTime, TRUE) : n \in 0..MaxLayers}
        \cup {Image(1, OffsetTime, TRUE), Image(1, ZeroTime, FALSE)}

NoImage == Image(0, ZeroTime, FALSE)

Tags == {"v1", "latest"}

RECURSIVE SeqsUpTo(_, _)
\* All sequences over elems of length at most n.
SeqsUpTo(elems, n) ==
    IF n = 0 THEN {<<>>}
    ELSE LET shorter == SeqsUpTo(elems, n - 1)
         IN  shorter \cup {Append(q, e) : q \in shorter, e \in elems}

TagLists == SeqsUpTo(Tags, MaxTags)

\* What a registry request ends with: a network or protocol failure.
FetchErrors == {"connection refused", "context deadline exceeded"}

\* v1.Manifest and v1.ConfigFile as encoding/json writes them.
ManifestToJSON(m) ==
    JObj(<< <<"schemaVersion", JNum(2)>>,
            <<"config", JObj(<< <<"size", JNum(m.config.size)>>,
                                <<"digest", JStr(m.config.digest)>> >>)>>,
            <<"layers", JArr([k \in 1..Len(m.layers) |->
                            JObj(<< <<"size", JNum(m.layers[k].size)>>,
                                    <<"digest", JStr(m.layers[k].digest)>> >>)])>> >>)

ConfigToJSON(c) ==
    JObj(<< <<"architecture", JStr(c.architecture)>>,
            <<"created", JStr(Format(c.created, "2006-01-02T15:04:05Z07:00"))>>,
            <<"os", JStr(c.os)>> >>)

(***************************************************************************)
(* pkg/oci: the per-call context and the error texts of the adapter.       *)
(***************************************************************************)
\* defaultTimeout, in seconds.
defaultTimeout == 30

\* remote.WithContext(ctx), ctx the context the caller handed in, with
\* whatever deadline that has.
WithCallerContext(owner) ==
    [kind |-> "context", parent |-> "caller", timeout |-> 0, owner |-> owner]

\* remote.WithContext(reqCtx), reqCtx a context.WithTimeout of Background.
WithContext(owner) ==
    [kind |-> "context", parent |-> "Background", timeout |-> defaultTimeout,
     owner |-> owner]

\* The text of fmt.Errorf("<what>: %w", err).
Errorf(what, err) == what \o ": " \o err

(***************************************************************************)
(* pkg/mcp: the results the four handlers build.                           *)
(***************************************************************************)
\* The Markdown code fence.  A TLA+ string cannot hold a backquote, so the
\* three backquotes of the fence are written as three apostrophes.
Fence == "'''"

\* fmt.Sprintf("<kind> for %s:\n\n<fence>json\n%s\n<fence>", ref, json)
JSONBlock(kind, ref, json) ==
    kind \o " for " \o ref \o ":\n\n" \o Fence \o "json\n" \o json \o "\n" \o Fence

\* The label of the error result when the handler's adapter call fails.
AdapterFailureLabel(tool) ==
    CASE tool = GetImageInfoToolName -> "failed to get image"
      [] tool = ListTagsToolName -> "failed to list tags"
      [] tool = GetImageManifestToolName -> "failed to get manifest"
      [] tool = GetImageConfigToolName -> "failed to get config"

\* A handler that takes its argument's value under any key.
RequiredArgumentAnyKey(request) ==
    IF request.argValue = Nil THEN "" ELSE request.argValue

\* The head of every handler: the required argument, or the error result.
RequiredArgument(request) == ParseString(request, RequiredArg(request.tool), "")

MissingArgumentResult(request) ==
    NewToolResultError(RequiredArg(request.tool) \o " is required")

\* A layout of date and time alone.
createdLayoutDateTime == "2006-01-02 15:04:05"

\* The layout GetImageInfo formats config.Created with.
createdLayout == "2006-01-02T15:04:05Z07:00"

\* The tail of GetImageInfo, from the decoded manifest and config.
GetImageInfoResult(imageRef, manifest, config) ==
    LET result == [digest |-> JStr(manifest.config.digest),
                   size |-> JNum(manifest.config.size),
                   architecture |-> JStr(config.architecture),
                   os |-> JStr(config.os),
                   created |-> JStr(Format(config.created, createdLayout)),
                   layers |-> JNum(Len(manifest.layers))]
        resultJSON == MarshalIndent(MapToJSON(result))
    IN  IF ~resultJSON.ok
        THEN NewToolResultErrorFromErr("failed to marshal result", resultJSON.err)
        ELSE NewToolResultText(JSONBlock("Image information", imageRef, resultJSON.text))

RECURSIVE Deduplicated(_)
\* A sequence with the first occurrence of each of its elements.
Deduplicated(q) ==
    IF q = <<>> THEN <<>>
    ELSE LET front == Deduplicated(SubSeq(q, 1, Len(q) - 1))
             last == q[Len(q)]
         IN  IF \E k \in 1..Len(front) : front[k] = last THEN front
             ELSE Append(front, last)

\* A ListTags that drops the tags it has already listed.
ListTagsResultDeduplicated(repository, tags) ==
    LET kept == Deduplicated(tags)
        resultJSON == MarshalIndent(JArr([k \in 1..Len(kept) |-> JStr(kept[k])]))
    IN  IF Len(kept) = 0
        THEN NewToolResultText("No tags found for repository " \o repository)
        ELSE NewToolResultText(JSONBlock("Tags", repository, resultJSON.text))

\* The tail of ListTags, from the tags the adapter returned.
ListTagsResult(repository, tags) ==
    LET resultJSON == MarshalIndent(JArr([k \in 1..Len(tags) |-> JStr(tags[k])]))
    IN  IF Len(tags) = 0
        THEN NewToolResultText("No tags found for repository " \o repository)
        ELSE IF ~resultJSON.ok
        THEN NewToolResultErrorFromErr("failed to marshal result", resultJSON.err)
        ELSE NewToolResultText(JSONBlock("Tags", repository, resultJSON.text))

\* The tail of GetImageManifest.
GetImageManifestResult(imageRef, manifest) ==
    LET resultJSON == MarshalIndent(ManifestToJSON(manifest))
    IN  IF ~resultJSON.ok
        THEN NewToolResultErrorFromErr("failed to marshal result", resultJSON.err)
        ELSE NewToolResultText(JSONBlock("Manifest", imageRef, resultJSON.text))

\* The tail of GetImageConfig.
GetImageConfigResult(imageRef, config) ==
    LET resultJSON == MarshalIndent(ConfigToJSON(config))
    IN  IF ~resultJSON.ok
        THEN NewToolResultErrorFromErr("failed to marshal result", resultJSON.err)
        ELSE NewToolResultText(JSONBlock("Config", imageRef, resultJSON.text))

\* An adapter that leaves the parsing to the registry request.
AdapterParseUnchecked(tool, arg) == [ok |-> TRUE, err |-> Nil]

\* An adapter that reports a repository name it cannot parse as a ListError.
AdapterParseAsListError(tool, arg) ==
    IF tool = ListTagsToolName
    THEN LET repo == NewRepository(arg)
         IN  [ok |-> repo.ok,
              err |-> IF repo.ok THEN Nil ELSE Errorf("listing tags", repo.err)]
    ELSE LET ref == ParseReference(arg)
         IN  [ok |-> ref.ok,
              err |-> IF ref.ok THEN Nil ELSE Errorf("parsing image reference", ref.err)]

\* The reference parse that opens Client.GetImage and Client.ListTags:
\* [ok, err], err the wrapped error text.
AdapterParse(tool, arg) ==
    IF tool = ListTagsToolName
    THEN LET repo == NewRepository(arg)
         IN  [ok |-> repo.ok,
              err |-> IF repo.ok THEN Nil ELSE Errorf("parsing repository name", repo.err)]
    ELSE LET ref == ParseReference(arg)
         IN  [ok |-> ref.ok,
              err |-> IF ref.ok THEN Nil ELSE Errorf("parsing image reference", ref.err)]

\* The text of the error img.Manifest() returns for an undecodable manifest.
ManifestDecodeError == "unexpected end of JSON input"

(***************************************************************************)
(* The server: concurrent tool invocations.                                *)
(***************************************************************************)
VARIABLES
    env,        \* the credential variables of the process environment
    pc,         \* pc[i]: where invocation i stands
    req,        \* req[i]: the request of invocation i
    client,     \* client[i]: the oci.Client invocation i calls the adapter on
    logged,     \* logged[i]: the log lines invocation i has emitted
    calls,      \* calls[i]: the registry requests issued for invocation i
    reqCtx,     \* reqCtx[i]: the state of the adapter call's timeout context
    img,        \* img[i]: the image handle GetImage returned to invocation i
    tags,       \* tags[i]: the tags ListTags returned to invocation i
    handlerErr, \* handlerErr[i]: the handler's err, Nil while no call has failed
    ret         \* ret[i]: what the handler of invocation i returned

toolVars ==
    <<env, pc, req, client, logged, calls, reqCtx, img, tags, handlerErr, ret>>

\* The invocations in flight together.
Invocations == {1, 2}

\* The values of the required argument: missing, empty, a tagged image, a
\* reference with two colons, a three-component repository path.
ArgValues ==
    {Nil, "", "alpine:latest", "invalid:reference:format", "invalid/repo/format"}

\* Every request of the given tools, argument values and headers: a tool
\* with its required argument, or with another tool's argument in its place.
RequestsOf(tools, values, headers) ==
    {[tool |-> t, argName |-> RequiredArg(t), argValue |-> v, headers |-> h] :
        t \in tools, v \in values, h \in headers}
    \cup
    {[tool |-> t,
      argName |-> IF RequiredArg(t) = "image_ref" THEN "repository" ELSE "image_ref",
      argValue |-> "alpine:latest", headers |-> h] : t \in tools, h \in headers}

NoRequest ==
    [tool |-> Nil, argName |-> Nil, argValue |-> Nil,
     headers |-> [Authorization |-> <<>>]]

NoReturn == [result |-> NilResult, err |-> Nil]

Init ==
    /\ env \in Environments
    /\ pc = [i \in Invocations |-> "idle"]
    /\ req = [i \in Invocations |-> NoRequest]
    /\ client = [i \in Invocations |-> NewClient(<<>>)]
    /\ logged = [i \in Invocations |-> <<>>]
    /\ calls = [i \in Invocations |-> <<>>]
    /\ reqCtx = [i \in Invocations |-> "none"]
    /\ img = [i \in Invocations |-> NoImage]
    /\ tags = [i \in Invocations |-> <<>>]
    /\ handlerErr = [i \in Invocations |-> Nil]
    /\ ret = [i \in Invocations |-> NoReturn]

\* The handler returns result: the invocation is over.
Finish(i, result) ==
    /\ ret' = [ret EXCEPT ![i] = Return(result)]
    /\ pc' = [pc EXCEPT ![i] = "done"]

\* A call of the handler failed with e: it returns the error result made
\* of its label and e.
Fail(i, label, e) ==
    /\ handlerErr' = [handlerErr EXCEPT ![i] = e]
    /\ Finish(i, NewToolResultErrorFromErr(label, e))

\* The transport dispatches request r to its handler, which reads the
\* required argument and returns at once when it is missing or empty.
Invoke(i, r) ==
    /\ pc[i] = "idle"
    /\ req' = [req EXCEPT ![i] = r]
    /\ IF RequiredArgument(r) = ""
       THEN Finish(i, MissingArgumentResult(r))
       ELSE /\ pc' = [pc EXCEPT ![i] = "validated"]
            /\ UNCHANGED ret
    /\ UNCHANGED <<env, client, logged, calls, reqCtx, img, tags, handlerErr>>

\* The handler obtains its client from the factory setupServer installed,
\* applied to the headers of its own request.
ResolveClient(i) ==
    /\ pc[i] = "validated"
    /\ LET made == CreateOCIClientFromHeaders(req[i].headers, env)
       IN  /\ client' = [client EXCEPT ![i] = made.client]
           /\ logged' = [logged EXCEPT ![i] = logged[i] \o made.log]
    /\ pc' = [pc EXCEPT ![i] = "resolved"]
    /\ UNCHANGED <<env, req, calls, reqCtx, img, tags, handlerErr, ret>>

\* A registry request made with options kept in one place for the whole
\* process: those of the first invocation that resolved a client.
RegistryCallSharedOptions(i, op, target, ctxState) ==
    LET holders == {j \in Invocations : client[j].options # <<>>}
        first == CHOOSE j \in holders : \A k \in holders : j <= k
    IN  [op |-> op, target |-> target,
         options |-> client[first].options \o <<WithContext(i)>>, ctx |-> ctxState]

\* remote.Image / remote.List / the blob fetch of an image handle, for
\* invocation i: the request, with the options the adapter passes, which
\* are the client's options and then the call's context.
RegistryCall(i, op, target, ctxState) ==
    [op |-> op, target |-> target,
     options |-> client[i].options \o <<WithContext(i)>>, ctx |-> ctxState]

\* Client.GetImage / Client.ListTags up to the registry request: the
\* reference is parsed, the timeout context made, the request issued.
ClientCall(i) ==
    /\ pc[i] = "resolved"
    /\ LET tool == req[i].tool
           arg == RequiredArgument(req[i])
           parsed == AdapterParse(tool, arg)
           op == IF tool = ListTagsToolName THEN "remote.List" ELSE "remote.Image"
       IN  IF ~parsed.ok
           THEN /\ Fail(i, AdapterFailureLabel(tool), parsed.err)
                /\ UNCHANGED <<calls, reqCtx>>
           ELSE /\ calls' = [calls EXCEPT ![i] = Append(calls[i], RegistryCall(i, op, arg, "live"))]
                /\ reqCtx' = [reqCtx EXCEPT ![i] = "live"]
                /\ pc' = [pc EXCEPT ![i] = "fetching"]
                /\ UNCHANGED <<ret, handlerErr>>
    /\ UNCHANGED <<env, req, client, logged, img, tags>>

\* A ListTags that tries a failed listing once more.
RemoteListReplyRetrying(i, ok, listed, err) ==
    /\ pc[i] = "fetching"
    /\ req[i].tool = ListTagsToolName
    /\ reqCtx' = [reqCtx EXCEPT ![i] = "cancelled"]
    /\ IF ok
       THEN /\ tags' = [tags EXCEPT ![i] = listed]
            /\ Finish(i, ListTagsResult(RequiredArgument(req[i]), listed))
            /\ UNCHANGED handlerErr
       ELSE IF Len(calls[i]) < 2
       THEN /\ pc' = [pc EXCEPT ![i] = "resolved"]
            /\ UNCHANGED <<tags, handlerErr, ret>>
       ELSE /\ Fail(i, AdapterFailureLabel(req[i].tool), Errorf("listing tags", err))
            /\ UNCHANGED tags
    /\ UNCHANGED <<env, req, client, logged, calls, img>>

\* remote.List returns; Client.ListTags returns (its deferred cancel runs)
\* and the handler builds its result.
RemoteListReply(i, ok, listed, err) ==
    /\ pc[i] = "fetching"
    /\ req[i].tool = ListTagsToolName
    /\ reqCtx' = [reqCtx EXCEPT ![i] = "cancelled"]
    /\ IF ok
       THEN /\ tags' = [tags EXCEPT ![i] = listed]
            /\ Finish(i, ListTagsResult(RequiredArgument(req[i]), listed))
            /\ UNCHANGED handlerErr
       ELSE /\ Fail(i, AdapterFailureLabel(req[i].tool), Errorf("listing tags", err))
            /\ UNCHANGED tags
    /\ UNCHANGED <<env, req, client, logged, calls, img>>

\* remote.Image returns; Client.GetImage returns (its deferred cancel
\* runs); the caller decodes the manifest and, for the info and config
\* tools, asks the image handle for its config file.
RemoteImageReply(i, ok, image, err) ==
    /\ pc[i] = "fetching"
    /\ req[i].tool # ListTagsToolName
    /\ reqCtx' = [reqCtx EXCEPT ![i] = "cancelled"]
    /\ LET tool == req[i].tool
           imageRef == RequiredArgument(req[i])
       IN  IF ~ok
           THEN /\ Fail(i, AdapterFailureLabel(tool), Errorf("fetching image", err))
                /\ UNCHANGED <<img, calls>>
           ELSE /\ img' = [img EXCEPT ![i] = image]
                /\ IF ~image.manifestOK
                   THEN /\ CASE tool = GetImageInfoToolName ->
                                   Fail(i, "failed to get manifest", ManifestDecodeError)
                              [] tool = GetImageManifestToolName ->
                                   Fail(i, "failed to get manifest",
                                        Errorf("getting manifest", ManifestDecodeError))
                              [] tool = GetImageConfigToolName ->
                                   Fail(i, "failed to get config",
                                        Errorf("getting config", ManifestDecodeError))
                        /\ UNCHANGED calls
                   ELSE IF tool = GetImageManifestToolName
                   THEN /\ Finish(i, GetImageManifestResult(imageRef, image.manifest))
                        /\ UNCHANGED <<calls, handlerErr>>
                   ELSE /\ calls' = [calls EXCEPT ![i] =
                              Append(calls[i], RegistryCall(i, "fetchBlob", imageRef, "cancelled"))]
                        /\ pc' = [pc EXCEPT ![i] = "config"]
                        /\ UNCHANGED <<ret, handlerErr>>
    /\ UNCHANGED <<env, req, client, logged, tags>>

\* What fetching the config blob under the handle's context ends with.
ConfigErrors == {"context canceled"}

\* img.ConfigFile() returns and the handler builds its result.
ConfigFileReply(i, ok, err) ==
    /\ pc[i] = "config"
    /\ LET tool == req[i].tool
           imageRef == RequiredArgument(req[i])
       IN  IF ~ok
           THEN Fail(i, "failed to get config",
                     IF tool = GetImageInfoToolName THEN err
                     ELSE Errorf("getting config", err))
           ELSE /\ IF tool = GetImageInfoToolName
                   THEN Finish(i, GetImageInfoResult(imageRef, img[i].manifest, img[i].config))
                   ELSE Finish(i, GetImageConfigResult(imageRef, img[i].config))
                /\ UNCHANGED handlerErr
    /\ UNCHANGED <<env, req, client, logged, calls, reqCtx, img, tags>>

(***************************************************************************)
(* cmd/server: the listen port.                                            *)
(***************************************************************************)
VARIABLES
    mcpPort,    \* the MCP_PORT variable of the environment, Nil when unset
    portPc,     \* where main stands in working out the port
    port,       \* the port getMCPServerPort returned
    portLog     \* the lines logged on the way

portVars == <<mcpPort, portPc, port, portLog>>

Digits == {"0", "1", "2", "3", "4", "5", "6", "7", "8", "9"}

DigitValue(c) ==
    CASE c = "0" -> 0 [] c = "1" -> 1 [] c = "2" -> 2 [] c = "3" -> 3
      [] c = "4" -> 4 [] c = "5" -> 5 [] c = "6" -> 6 [] c = "7" -> 7
      [] c = "8" -> 8 [] c = "9" -> 9

RECURSIVE DecimalValue(_)
\* The number a string of digits writes.
DecimalValue(digits) ==
    IF digits = "" THEN 0
    ELSE 10 * DecimalValue(SubSeq(digits, 1, Len(digits) - 1))
         + DigitValue(Char(digits, Len(digits)))

RECURSIVE TrimLeadingZeros(_)
\* A digit string without the zeros that lead it (one digit is kept).
TrimLeadingZeros(digits) ==
    IF Len(digits) > 1 /\ Char(digits, 1) = "0"
    THEN TrimLeadingZeros(SubSeq(digits, 2, Len(digits)))
    ELSE digits

RECURSIVE DigitsGreater(_, _)
\* a > b, for digit strings of one length.
DigitsGreater(a, b) ==
    IF a = "" THEN FALSE
    ELSE IF Char(a, 1) # Char(b, 1)
    THEN DigitValue(Char(a, 1)) > DigitValue(Char(b, 1))
    ELSE DigitsGreater(SubSeq(a, 2, Len(a)), SubSeq(b, 2, Len(b)))

\* The number digits writes is greater than the number limit writes.
ExceedsDigits(digits, limit) ==
    LET d == TrimLeadingZeros(digits)
    IN  \/ Len(d) > Len(limit)
        \/ Len(d) = Len(limit) /\ DigitsGreater(d, limit)

\* The greatest magnitudes of a 64-bit int, above and below zero.
maxIntDigits == "9223372036854775807"
minIntDigits == "9223372036854775808"

\* strconv.Atoi: an optional sign and decimal digits; [ok, value].  A
\* numeral beyond the range of int is an error (value out of range), as a
\* string that is no numeral is (invalid syntax).  The integers here are
\* narrower than int: the leading nine digits stand for a longer numeral,
\* which keeps it above every port, the one thing its value is read for.
Atoi(s) ==
    LET signed == s # "" /\ Char(s, 1) \in {"-", "+"}
        negative == signed /\ Char(s, 1) = "-"
        digits == IF signed THEN SubSeq(s, 2, Len(s)) ELSE s
        d == TrimLeadingZeros(digits)
        magnitude == IF Len(d) > 9 THEN DecimalValue(SubSeq(d, 1, 9))
                     ELSE DecimalValue(d)
    IN  IF digits = "" \/ ~AllCharsIn(digits, Digits)
        THEN [ok |-> FALSE, value |-> 0]
        ELSE IF ExceedsDigits(digits, IF negative THEN minIntDigits ELSE maxIntDigits)
        THEN [ok |-> FALSE, value |-> 0]
        ELSE [ok |-> TRUE, value |-> IF negative THEN -magnitude ELSE magnitude]

defaultPort == 8080

\* A validatePort without its upper limit.
ValidatePortNoUpperLimit(p) == p >= 0

validatePort(p) == p >= 0 /\ p <= 65535

\* A getMCPServerPort that falls back silently from a number out of range.
getMCPServerPortSilentRange(environ) ==
    LET envPort == IF environ = Nil THEN "" ELSE environ
        parsed == Atoi(envPort)
    IN  IF envPort = ""
        THEN [port |-> defaultPort, log |-> <<>>]
        ELSE IF ~parsed.ok
        THEN [port |-> defaultPort,
              log |-> <<"Invalid MCP_PORT value: " \o envPort
                        \o " (must be a valid number), using default port 8080">>]
        ELSE IF ~validatePort(parsed.value)
        THEN [port |-> defaultPort, log |-> <<>>]
        ELSE [port |-> parsed.value, log |-> <<>>]

\* getMCPServerPort: the port and the lines it logs.
getMCPServerPort(environ) ==
    LET envPort == IF environ = Nil THEN "" ELSE environ
        parsed == Atoi(envPort)
    IN  IF envPort = ""
        THEN [port |-> defaultPort, log |-> <<>>]
        ELSE IF ~parsed.ok
        THEN [port |-> defaultPort,
              log |-> <<"Invalid MCP_PORT value: " \o envPort
                        \o " (must be a valid number), using default port 8080">>]
        ELSE IF ~validatePort(parsed.value)
        THEN [port |-> defaultPort,
              log |-> <<"Invalid MCP_PORT value: " \o envPort
                        \o " (must be between 0 and 65535), using default port 8080">>]
        ELSE [port |-> parsed.value, log |-> <<>>]

\* The characters of the MCP_PORT values enumerated.
PortChars == {"0", "3", "5", "6", "-", "+", "x"}

\* Longer values: the ends of the range of int, the numerals one past
\* them, a numeral far past them, and a port with zeros before it.
LongPortValues ==
    {"9223372036854775807", "9223372036854775808", "-9223372036854775808",
     "-9223372036854775809", "99999999999999999999", "0000000000000000000035"}

PortValues == {Nil} \cup StringsUpTo(PortChars, MaxPortLen) \cup LongPortValues

InitPort ==
    /\ mcpPort \in PortValues
    /\ portPc = "start"
    /\ port = 0
    /\ portLog = <<>>

\* main calls getMCPServerPort.
ReadPort ==
    /\ portPc = "start"
    /\ LET got == getMCPServerPort(mcpPort)
       IN  /\ port' = got.port
           /\ portLog' = portLog \o got.log
    /\ portPc' = "env"
    /\ UNCHANGED mcpPort

(***************************************************************************)
(* cmd/server: main, from the flags to the exit of the process.            *)
(***************************************************************************)
VARIABLES
    flagPort,     \* the -port flag of the command line
    mainPc,       \* where main stands once the port is settled
    sigCh,        \* the signals buffered in sigCh
    sigPc,        \* where the signal goroutine stands
    signals,      \* the termination signals delivered so far
    ctxDone,      \* ctx of main is cancelled
    srv,          \* the state of the HTTP server of the transport
    active,       \* the invocations in flight on the transport
    listenerPc,   \* where the listener goroutine stands
    serverErrCh,  \* the errors buffered in serverErrCh
    shutdownPc,   \* where the shutdown goroutine stands
    shutdownCh,   \* the values buffered in shutdownCh
    shutdownSent, \* the values the shutdown goroutine has sent
    graceExpired, \* shutdownCtx is done: the grace period is over
    exit          \* the exit of the process: [done, status, message]

mainVars ==
    <<flagPort, mainPc, sigCh, sigPc, signals, ctxDone, srv, active, listenerPc,
      serverErrCh, shutdownPc, shutdownCh, shutdownSent, graceExpired, exit>>

\* The -port flag: absent, a word flag.Int cannot parse, or an integer.
NoFlag == [given |-> FALSE, ok |-> TRUE, value |-> 0]

FlagValues ==
    {NoFlag, [given |-> TRUE, ok |-> FALSE, value |-> 0]}
    \cup {[given |-> TRUE, ok |-> TRUE, value |-> v] : v \in {-1, 0, 443, 65535, 65536}}

Running == [done |-> FALSE, status |-> 0, message |-> ""]

\* os.Exit(status), after message was logged.
Exit(status, message) == [done |-> TRUE, status |-> status, message |-> message]

\* main before its first statement, nothing started.
MainIdle ==
    /\ mainPc = "setup"
    /\ sigCh = 0 /\ sigPc = "none" /\ signals = 0 /\ ctxDone = FALSE
    /\ srv = "new" /\ active = 0
    /\ listenerPc = "none" /\ serverErrCh = <<>>
    /\ shutdownPc = "none" /\ shutdownCh = <<>> /\ shutdownSent = 0
    /\ graceExpired = FALSE
    /\ exit = Running

\* A ParseFlags that falls back from a flag out of range to the port of
\* the environment.
ParseFlagsFallBackToEnvPort ==
    /\ portPc = "env"
    /\ ~exit.done
    /\ portPc' = "flags"
    /\ IF flagPort.given /\ ~flagPort.ok
       THEN /\ exit' = Exit(2, "invalid value for flag -port: parse error")
            /\ UNCHANGED <<port, portLog>>
       ELSE LET parsed == IF flagPort.given THEN flagPort.value ELSE port
            IN  /\ IF ~validatePort(parsed)
                   THEN /\ UNCHANGED port
                        /\ portLog' = Append(portLog,
                              "Invalid port number: " \o ToString(parsed)
                              \o " (must be between 0 and 65535), using default port 8080")
                   ELSE /\ port' = parsed
                        /\ UNCHANGED portLog
                /\ UNCHANGED exit
    /\ UNCHANGED <<mcpPort, flagPort, mainPc, sigCh, sigPc, signals, ctxDone, srv,
                   active, listenerPc, serverErrCh, shutdownPc, shutdownCh,
                   shutdownSent, graceExpired>>

\* flag.Int("port", envPort, ...), flag.Parse() and the validation of the
\* port: a flag that does not parse ends the process with status 2; a port
\* out of range is logged and replaced by 8080.
ParseFlags ==
    /\ portPc = "env"
    /\ ~exit.done
    /\ portPc' = "flags"
    /\ IF flagPort.given /\ ~flagPort.ok
       THEN /\ exit' = Exit(2, "invalid value for flag -port: parse error")
            /\ UNCHANGED <<port, portLog>>
       ELSE LET parsed == IF flagPort.given THEN flagPort.value ELSE port
            IN  /\ IF ~validatePort(parsed)
                   THEN /\ port' = 8080
                        /\ portLog' = Append(portLog,
                              "Invalid port number: " \o ToString(parsed)
                              \o " (must be between 0 and 65535), using default port 8080")
                   ELSE /\ port' = parsed
                        /\ UNCHANGED portLog
                /\ UNCHANGED exit
    /\ UNCHANGED <<mcpPort, flagPort, mainPc, sigCh, sigPc, signals, ctxDone, srv,
                   active, listenerPc, serverErrCh, shutdownPc, shutdownCh,
                   shutdownSent, graceExpired>>

\* setupContextWithGracefulShutdown, setupServer and startServer: the
\* signals are routed to sigCh, the signal goroutine and the listener
\* goroutine are started, and main reaches its select.
StartServer ==
    /\ portPc = "flags"
    /\ mainPc = "setup"
    /\ ~exit.done
    /\ sigPc' = "waiting"
    /\ listenerPc' = "starting"
    /\ mainPc' = "select"
    /\ UNCHANGED <<portVars, flagPort, sigCh, signals, ctxDone, srv, active,
                   serverErrCh, shutdownPc, shutdownCh, shutdownSent, graceExpired,
                   exit>>

\* The signals a run delivers at most.
MaxSignals == 2

\* SIGINT or SIGTERM is delivered once signal.Notify routes it: the
\* runtime sends it to sigCh without blocking, dropping it when the buffer
\* of one is full.
DeliverSignal ==
    /\ sigPc # "none"
    /\ ~exit.done
    /\ signals < MaxSignals
    /\ signals' = signals + 1
    /\ sigCh' = IF sigCh < 1 THEN sigCh + 1 ELSE sigCh
    /\ UNCHANGED <<portVars, flagPort, mainPc, sigPc, ctxDone, srv, active,
                   listenerPc, serverErrCh, shutdownPc, shutdownCh, shutdownSent,
                   graceExpired, exit>>

\* The signal goroutine receives from sigCh and cancels ctx.
SignalGoroutine ==
    /\ sigPc = "waiting"
    /\ sigCh > 0
    /\ ~exit.done
    /\ sigCh' = sigCh - 1
    /\ ctxDone' = TRUE
    /\ sigPc' = "done"
    /\ UNCHANGED <<portVars, flagPort, mainPc, signals, srv, active, listenerPc,
                   serverErrCh, shutdownPc, shutdownCh, shutdownSent, graceExpired,
                   exit>>

\* A send to a serverErrCh made without a buffer: it completes only while
\* main is at its select to receive, and blocks otherwise.
ListenerSendsUnbuffered(err) ==
    IF mainPc = "select" /\ Len(serverErrCh) < 1
    THEN /\ serverErrCh' = Append(serverErrCh, err)
         /\ listenerPc' = "returned"
    ELSE /\ listenerPc' = "blocked"
         /\ UNCHANGED serverErrCh

\* The listener goroutine sends err to serverErrCh, a channel with a buffer
\* of one that main receives from in its select only: the send goes to
\* the buffer, or blocks when the buffer is full.
ListenerSends(err) ==
    IF Len(serverErrCh) < 1
    THEN /\ serverErrCh' = Append(serverErrCh, err)
         /\ listenerPc' = "returned"
    ELSE /\ listenerPc' = "blocked"
         /\ UNCHANGED serverErrCh

\* What sseServer.Start fails to start with.
StartErrors == {"listen tcp :8080: bind: address already in use"}

ErrServerClosed == "http: Server closed"

\* sseServer.Start returns without having served: the address cannot be
\* bound, or the server was shut down first.
ListenerFailsToStart(err) ==
    /\ listenerPc = "starting"
    /\ ~exit.done
    /\ IF srv = "closed" THEN err = ErrServerClosed ELSE err \in StartErrors
    /\ ListenerSends(err)
    /\ UNCHANGED <<portVars, flagPort, mainPc, sigCh, sigPc, signals, ctxDone,
                   srv, active, shutdownPc, shutdownCh, shutdownSent, graceExpired,
                   exit>>

\* sseServer.Start has bound the address and serves.
ListenerServes ==
    /\ listenerPc = "starting"
    /\ srv = "new"
    /\ ~exit.done
    /\ srv' = "listening"
    /\ listenerPc' = "serving"
    /\ UNCHANGED <<portVars, flagPort, mainPc, sigCh, sigPc, signals, ctxDone,
                   active, serverErrCh, shutdownPc, shutdownCh, shutdownSent,
                   graceExpired, exit>>

\* sseServer.Start returns because the server was shut down.
ListenerReturns ==
    /\ listenerPc = "serving"
    /\ srv = "closed"
    /\ ~exit.done
    /\ ListenerSends(ErrServerClosed)
    /\ UNCHANGED <<portVars, flagPort, mainPc, sigCh, sigPc, signals, ctxDone,
                   srv, active, shutdownPc, shutdownCh, shutdownSent, graceExpired,
                   exit>>

\* The invocations in flight on the transport at most.
MaxActive == 2

\* The transport takes an invocation.
InvocationBegins ==
    /\ srv = "listening"
    /\ ~exit.done
    /\ active < MaxActive
    /\ active' = active + 1
    /\ UNCHANGED <<portVars, flagPort, mainPc, sigCh, sigPc, signals, ctxDone,
                   srv, listenerPc, serverErrCh, shutdownPc, shutdownCh,
                   shutdownSent, graceExpired, exit>>

\* An invocation in flight ends.
InvocationEnds ==
    /\ active > 0
    /\ ~exit.done
    /\ active' = active - 1
    /\ UNCHANGED <<portVars, flagPort, mainPc, sigCh, sigPc, signals, ctxDone,
                   srv, listenerPc, serverErrCh, shutdownPc, shutdownCh,
                   shutdownSent, graceExpired, exit>>

\* The select of main takes the case of serverErrCh: log.Fatalf.
MainServerError ==
    /\ mainPc = "select"
    /\ serverErrCh # <<>>
    /\ ~exit.done
    /\ serverErrCh' = Tail(serverErrCh)
    /\ exit' = Exit(1, "Server failed to start: " \o Head(serverErrCh))
    /\ UNCHANGED <<portVars, flagPort, mainPc, sigCh, sigPc, signals, ctxDone,
                   srv, active, listenerPc, shutdownPc, shutdownCh, shutdownSent,
                   graceExpired>>

\* The select of main takes the case of ctx.Done(): shutdownServer makes
\* shutdownCtx, starts the shutdown goroutine and reaches its select.
MainShutsDown ==
    /\ mainPc = "select"
    /\ ctxDone
    /\ ~exit.done
    /\ mainPc' = "shutdown"
    /\ shutdownPc' = "running"
    /\ UNCHANGED <<portVars, flagPort, sigCh, sigPc, signals, ctxDone, srv, active,
                   listenerPc, serverErrCh, shutdownCh, shutdownSent, graceExpired,
                   exit>>

\* The shutdown goroutine calls sseServer.Shutdown(shutdownCtx), which
\* closes the server to new invocations.
ShutdownBegins ==
    /\ shutdownPc = "running"
    /\ ~exit.done
    /\ srv' = "closed"
    /\ shutdownPc' = "waiting"
    /\ UNCHANGED <<portVars, flagPort, mainPc, sigCh, sigPc, signals, ctxDone,
                   active, listenerPc, serverErrCh, shutdownCh, shutdownSent,
                   graceExpired, exit>>

ErrDeadlineExceeded == "context deadline exceeded"

\* sseServer.Shutdown returns, with nil once no invocation is in flight or
\* with the error of shutdownCtx once that is done; the goroutine sends
\* the value to shutdownCh (a buffer of one) and closes the channel.
ShutdownReturns(err) ==
    /\ shutdownPc = "waiting"
    /\ ~exit.done
    /\ \/ active = 0 /\ err = Nil
       \/ graceExpired /\ err = ErrDeadlineExceeded
    /\ IF Len(shutdownCh) < 1
       THEN /\ shutdownCh' = Append(shutdownCh, err)
            /\ shutdownSent' = shutdownSent + 1
            /\ shutdownPc' = "closed"
       ELSE /\ shutdownPc' = "blocked"
            /\ UNCHANGED <<shutdownCh, shutdownSent>>
    /\ UNCHANGED <<portVars, flagPort, mainPc, sigCh, sigPc, signals, ctxDone,
                   srv, active, listenerPc, serverErrCh, graceExpired, exit>>

\* The five seconds of shutdownCtx are over.
GraceExpires ==
    /\ mainPc = "shutdown"
    /\ ~graceExpired
    /\ ~exit.done
    /\ graceExpired' = TRUE
    /\ UNCHANGED <<portVars, flagPort, mainPc, sigCh, sigPc, signals, ctxDone,
                   srv, active, listenerPc, serverErrCh, shutdownPc, shutdownCh,
                   shutdownSent, exit>>

\* The select of shutdownServer takes the case of shutdownCh: the outcome
\* is logged, shutdownServer returns and main returns.
MainShutdownCompletes ==
    /\ mainPc = "shutdown"
    /\ shutdownCh # <<>>
    /\ ~exit.done
    /\ shutdownCh' = Tail(shutdownCh)
    /\ exit' = Exit(0, "Server shutdown complete, exiting...")
    /\ UNCHANGED <<portVars, flagPort, mainPc, sigCh, sigPc, signals, ctxDone,
                   srv, active, listenerPc, serverErrCh, shutdownPc, shutdownSent,
                   graceExpired>>

\* A shutdown select without the case of shutdownCtx.Done(): main leaves
\* only with the outcome of the shutdown.
MainShutdownWaitsForOutcome ==
    /\ mainPc = "shutdown"
    /\ graceExpired
    /\ shutdownCh # <<>>
    /\ ~exit.done
    /\ shutdownCh' = Tail(shutdownCh)
    /\ exit' = Exit(0, "Server shutdown complete, exiting...")
    /\ UNCHANGED <<portVars, flagPort, mainPc, sigCh, sigPc, signals, ctxDone,
                   srv, active, listenerPc, serverErrCh, shutdownPc, shutdownSent,
                   graceExpired>>

\* An exit of the shutdown select on shutdownCtx.Done() with status 0.
MainShutdownForcedStatusZero ==
    /\ mainPc = "shutdown"
    /\ graceExpired
    /\ ~exit.done
    /\ exit' = Exit(0, "Server shutdown timed out, forcing exit...")
    /\ UNCHANGED <<portVars, flagPort, mainPc, sigCh, sigPc, signals, ctxDone,
                   srv, active, listenerPc, serverErrCh, shutdownPc, shutdownCh,
                   shutdownSent, graceExpired>>

\* The select of shutdownServer takes the case of shutdownCtx.Done():
\* os.Exit(1).
MainShutdownForced ==
    /\ mainPc = "shutdown"
    /\ graceExpired
    /\ ~exit.done
    /\ exit' = Exit(1, "Server shutdown timed out, forcing exit...")
    /\ UNCHANGED <<portVars, flagPort, mainPc, sigCh, sigPc, signals, ctxDone,
                   srv, active, listenerPc, serverErrCh, shutdownPc, shutdownCh,
                   shutdownSent, graceExpired>>

(***************************************************************************)
(* One client for the whole process: the server of createOCIClient, whose  *)
(* tool provider holds the client every handler calls.                     *)
(***************************************************************************)
VARIABLES
    handle,     \* the Client all calls are made on: its options and their capacity
    spare,      \* the slots of the options' backing array beyond their length
    callPc,     \* callPc[c]: where call c of the adapter stands
    callOp,     \* callOp[c]: the adapter method of call c
    callOpts,   \* callOpts[c]: the local options slice of call c
    seen        \* seen[c]: the options the registry request of call c was given

sharedVars == <<handle, spare, callPc, callOp, callOpts, seen>>

\* createOCIClient: the client of the process and the line it logs.
CreateOCIClient(environ) ==
    LET token == Getenv(environ, "OCI_TOKEN")
        username == Getenv(environ, "OCI_USERNAME")
        password == Getenv(environ, "OCI_PASSWORD")
    IN  IF token # ""
        THEN [client |-> NewClient(<<WithBearerToken(token)>>),
              log |-> <<"Using bearer token authentication for OCI registry">>]
        ELSE IF username # "" /\ password # ""
        THEN [client |-> NewClient(<<WithBasicAuth(username, password)>>),
              log |-> <<"Using username/password authentication for OCI registry">>]
        ELSE [client |-> NewClient(<<WithDefaultKeychain>>),
              log |-> <<"Using default keychain for OCI registry authentication">>]

\* The capacity of a slice preallocated with room for one more element.
CapWithRoom(n) == n + 1

\* The capacity of a slice of n elements grown from nil by one append per
\* element, as ociClientOptions is: append doubles a full backing array.
GrownCap(n) ==
    IF n <= 2 THEN n ELSE IF n <= 4 THEN 4 ELSE 8

\* The calls made on the one client.
MaxSharedCalls == 3

SharedCalls == 1..MaxSharedCalls

\* The methods of the adapter; each comes to the append and the registry
\* request of GetImage or of ListTags.
AdapterMethods == {"GetImage", "GetImageManifest", "GetImageConfig", "ListTags"}

\* A slot of a backing array that nothing was stored in.
NoOption == [kind |-> "none"]

NoSlice == [aliased |-> FALSE, own |-> <<>>]

\* No client for the whole process: every invocation makes its own.
SharedIdle ==
    /\ handle = [options |-> <<>>, cap |-> 0]
    /\ spare = <<>>
    /\ callPc = [c \in SharedCalls |-> "idle"]
    /\ callOp = [c \in SharedCalls |-> Nil]
    /\ callOpts = [c \in SharedCalls |-> NoSlice]
    /\ seen = [c \in SharedCalls |-> <<>>]

\* main has made the client with createOCIClient and handed it to
\* NewToolProvider; no call is in progress.
SharedClientMade ==
    /\ LET options == CreateOCIClient(env).client.options
       IN  /\ handle = [options |-> options, cap |-> GrownCap(Len(options))]
           /\ spare = [k \in 1..(GrownCap(Len(options)) - Len(options)) |-> NoOption]
    /\ callPc = [c \in SharedCalls |-> "idle"]
    /\ callOp = [c \in SharedCalls |-> Nil]
    /\ callOpts = [c \in SharedCalls |-> NoSlice]
    /\ seen = [c \in SharedCalls |-> <<>>]

\* options := append(c.options, remote.WithContext(reqCtx)) in call c of
\* method op: with room in the backing array of c.options the element is
\* stored there and options shares the array; without, options is a copy.
AppendContext(c, op) ==
    /\ callPc[c] = "idle"
    /\ callOp' = [callOp EXCEPT ![c] = op]
    /\ IF Len(handle.options) < handle.cap
       THEN /\ spare' = [spare EXCEPT ![1] = WithContext(c)]
            /\ callOpts' = [callOpts EXCEPT ![c] = [aliased |-> TRUE, own |-> <<>>]]
       ELSE /\ callOpts' = [callOpts EXCEPT ![c] =
                    [aliased |-> FALSE, own |-> handle.options \o <<WithContext(c)>>]]
            /\ UNCHANGED spare
    /\ callPc' = [callPc EXCEPT ![c] = "appended"]
    /\ UNCHANGED <<handle, seen>>

\* remote.Image(ref, options...) or remote.List(repo, options...) in call
\* c: the request reads the elements of options.
RemoteRequest(c) ==
    /\ callPc[c] = "appended"
    /\ seen' = [seen EXCEPT ![c] =
            IF callOpts[c].aliased THEN handle.options \o <<spare[1]>>
            ELSE callOpts[c].own]
    /\ callPc' = [callPc EXCEPT ![c] = "requested"]
    /\ UNCHANGED <<handle, spare, callOp, callOpts>>

\* The request of call c ends and the method returns.
CallReturns(c) ==
    /\ callPc[c] = "requested"
    /\ callPc' = [callPc EXCEPT ![c] = "returned"]
    /\ UNCHANGED <<handle, spare, callOp, callOpts, seen>>

(***************************************************************************)
(* The caller of an invocation: the context the transport hands to the     *)
(* handler, which the handler hands to the adapter.                        *)
(***************************************************************************)
VARIABLES
    callerCtx   \* callerCtx[i]: the state of the ctx the handler of i was given

callVars == <<callerCtx>>

CallersLive == callerCtx = [i \in Invocations |-> "live"]

\* The caller of invocation i goes away and the transport cancels the ctx
\* of the handler.  Client.GetImage and Client.ListTags derive their
\* reqCtx from context.Background(), and Client.GetImageManifest and
\* Client.GetImageConfig hand GetImage a context it does not read: no
\* context of the adapter hears of it.
CallerCancels(i) ==
    /\ pc[i] \notin {"idle", "done"}
    /\ callerCtx[i] = "live"
    /\ callerCtx' = [callerCtx EXCEPT ![i] = "cancelled"]
    /\ UNCHANGED <<toolVars, portVars, mainVars, sharedVars>>

(***************************************************************************)
(* The specifications.                                                     *)
(***************************************************************************)
\* What a step of the tool invocations leaves alone, and a step of main.
restVars == <<portVars, mainVars, callVars, sharedVars>>

vars == <<toolVars, portVars, mainVars, callVars, sharedVars>>

\* One step of the server, its requests and the registry's answers drawn
\* from the given sets.
Serve(requests, tagLists, images, fetchErrors) ==
    \/ \E i \in Invocations, r \in requests : Invoke(i, r) /\ UNCHANGED restVars
    \/ \E i \in Invocations : ResolveClient(i) /\ UNCHANGED restVars
    \/ \E i \in Invocations : ClientCall(i) /\ UNCHANGED restVars
    \/ \E i \in Invocations, listed \in tagLists :
            RemoteListReply(i, TRUE, listed, Nil) /\ UNCHANGED restVars
    \/ \E i \in Invocations, err \in fetchErrors :
            RemoteListReply(i, FALSE, <<>>, err) /\ UNCHANGED restVars
    \/ \E i \in Invocations, image \in images :
            RemoteImageReply(i, TRUE, image, Nil) /\ UNCHANGED restVars
    \/ \E i \in Invocations, err \in fetchErrors :
            RemoteImageReply(i, FALSE, NoImage, err) /\ UNCHANGED restVars
    \/ \E i \in Invocations : ConfigFileReply(i, TRUE, Nil) /\ UNCHANGED restVars
    \/ \E i \in Invocations, err \in ConfigErrors :
            ConfigFileReply(i, FALSE, err) /\ UNCHANGED restVars

PortSettled == mcpPort = Nil /\ portPc = "start" /\ port = 0 /\ portLog = <<>>

\* The tool invocations alone: main is left where it starts.
MainUnstarted == flagPort = NoFlag /\ MainIdle /\ CallersLive /\ SharedIdle

\* Dispatch: every tool, argument and registry answer, for requests with
\* and without a bearer token, in a process with and without OCI_TOKEN.
DispatchHeaders == [Authorization : {<<>>, <<"Bearer tokA">>}]

DispatchEnvironments ==
    [OCI_TOKEN : {Nil, "envtok"}, OCI_USERNAME : {""}, OCI_PASSWORD : {Nil}]

Requests == RequestsOf(ToolNames, ArgValues, DispatchHeaders)

InitServer == Init /\ env \in DispatchEnvironments /\ PortSettled /\ MainUnstarted

Next == Serve(Requests, TagLists, Images, FetchErrors)

Spec == InitServer /\ [][Next]_vars

\* Credentials: every Authorization header in every environment, for the
\* tools of the two call shapes (one registry request, and two).
AuthRequests ==
    {r \in RequestsOf({ListTagsToolName, GetImageInfoToolName},
                      {"alpine:latest", "invalid/repo/format"}, Headers) :
        r.argName = RequiredArg(r.tool) /\ AdapterParse(r.tool, r.argValue).ok}

InitAuth == Init /\ PortSettled /\ MainUnstarted

NextAuth ==
    Serve(AuthRequests, {<<"v1">>},
          {Image(1, OffsetTime, TRUE)}, {"connection refused"})

SpecAuth == InitAuth /\ [][NextAuth]_vars

\* Calls: the four tools on well-formed arguments, every way a registry
\* request can end, and callers that go away with their invocation in flight.
CallRequests ==
    {r \in RequestsOf(ToolNames, {"alpine:latest", "invalid/repo/format"},
                      {[Authorization |-> <<"Bearer tokA">>]}) :
        r.argName = RequiredArg(r.tool) /\ AdapterParse(r.tool, r.argValue).ok}

InitCalls == Init /\ env \in DispatchEnvironments /\ PortSettled /\ MainUnstarted

NextCalls ==
    \/ Serve(CallRequests, {<<"v1">>}, {Image(1, ZeroTime, TRUE)}, FetchErrors)
    \/ \E i \in Invocations : CallerCancels(i)

SpecCalls == InitCalls /\ [][NextCalls]_vars

\* One client: calls of the adapter on the client of the process, in
\* every order and interleaving, in every environment.
InitShared ==
    /\ Init
    /\ PortSettled
    /\ flagPort = NoFlag /\ MainIdle /\ CallersLive
    /\ SharedClientMade

NextShared ==
    \/ \E c \in SharedCalls, op \in AdapterMethods :
            AppendContext(c, op) /\ UNCHANGED <<toolVars, portVars, mainVars, callVars>>
    \/ \E c \in SharedCalls :
            RemoteRequest(c) /\ UNCHANGED <<toolVars, portVars, mainVars, callVars>>
    \/ \E c \in SharedCalls :
            CallReturns(c) /\ UNCHANGED <<toolVars, portVars, mainVars, callVars>>

SpecShared == InitShared /\ [][NextShared]_vars

\* Startup: the port is worked out before any invocation is served.
InitStartup ==
    /\ InitPort
    /\ Init
    /\ env = [OCI_TOKEN |-> Nil, OCI_USERNAME |-> "", OCI_PASSWORD |-> Nil]
    /\ MainUnstarted

NextPort == ReadPort /\ UNCHANGED <<toolVars, mainVars, callVars, sharedVars>>

\* The process: main from its first statement to the exit, for a few
\* values of MCP_PORT and every flag.
MainPortValues == {Nil, "", "3000", "65536", "-5", "x3"}

InitMain ==
    /\ Init
    /\ env = [OCI_TOKEN |-> Nil, OCI_USERNAME |-> "", OCI_PASSWORD |-> Nil]
    /\ mcpPort \in MainPortValues
    /\ portPc = "start" /\ port = 0 /\ portLog = <<>>
    /\ flagPort \in FlagValues
    /\ MainIdle
    /\ CallersLive
    /\ SharedIdle

NextMain ==
    \/ ReadPort /\ UNCHANGED <<toolVars, mainVars, callVars, sharedVars>>
    \/ ParseFlags /\ UNCHANGED <<toolVars, callVars, sharedVars>>
    \/ StartServer /\ UNCHANGED <<toolVars, callVars, sharedVars>>
    \/ DeliverSignal /\ UNCHANGED <<toolVars, callVars, sharedVars>>
    \/ SignalGoroutine /\ UNCHANGED <<toolVars, callVars, sharedVars>>
    \/ \E err \in StartErrors \cup {ErrServerClosed} :
            ListenerFailsToStart(err) /\ UNCHANGED <<toolVars, callVars, sharedVars>>
    \/ ListenerServes /\ UNCHANGED <<toolVars, callVars, sharedVars>>
    \/ ListenerReturns /\ UNCHANGED <<toolVars, callVars, sharedVars>>
    \/ InvocationBegins /\ UNCHANGED <<toolVars, callVars, sharedVars>>
    \/ InvocationEnds /\ UNCHANGED <<toolVars, callVars, sharedVars>>
    \/ MainServerError /\ UNCHANGED <<toolVars, callVars, sharedVars>>
    \/ MainShutsDown /\ UNCHANGED <<toolVars, callVars, sharedVars>>
    \/ ShutdownBegins /\ UNCHANGED <<toolVars, callVars, sharedVars>>
    \/ \E err \in {Nil, ErrDeadlineExceeded} : ShutdownReturns(err) /\ UNCHANGED <<toolVars, callVars, sharedVars>>
    \/ GraceExpires /\ UNCHANGED <<toolVars, callVars, sharedVars>>
    \/ MainShutdownCompletes /\ UNCHANGED <<toolVars, callVars, sharedVars>>
    \/ MainShutdownForced /\ UNCHANGED <<toolVars, callVars, sharedVars>>

SpecMain == InitMain /\ [][NextMain]_vars

\* The steps of the goroutine of main.
MainSteps ==
    \/ ReadPort /\ UNCHANGED mainVars
    \/ ParseFlags
    \/ StartServer
    \/ MainServerError
    \/ MainShutsDown
    \/ MainShutdownCompletes
    \/ MainShutdownForced

\* The process under the scheduler and the clock: a goroutine that can
\* take a step takes one, and the timer of shutdownCtx fires.  Nothing is
\* assumed of sseServer.Shutdown returning, nor of the invocations in
\* flight ending.
SpecMainFair ==
    /\ SpecMain
    /\ WF_vars(MainSteps /\ UNCHANGED <<toolVars, callVars, sharedVars>>)
    /\ WF_vars(SignalGoroutine /\ UNCHANGED <<toolVars, callVars, sharedVars>>)
    /\ WF_vars(GraceExpires /\ UNCHANGED <<toolVars, callVars, sharedVars>>)

SpecPort == InitStartup /\ [][NextPort]_vars

(***************************************************************************)
(* Claims.                                                                 *)
(***************************************************************************)
\* The invocations whose client has been resolved.
Resolved(i) == pc[i] \notin {"idle", "validated"} /\ RequiredArgument(req[i]) # ""

\* The strategy of the four-tier precedence, first match wins, for the
\* first Authorization value auth ("" when there is none) in environment e.
PrecedenceStrategy(auth, e) ==
    LET set(name) == e[name] # Nil /\ e[name] # ""
    IN  IF Len(auth) >= 7 /\ SubSeq(auth, 1, 7) = "Bearer "
        THEN [type |-> "Bearer", token |-> SubSeq(auth, 8, Len(auth)),
              username |-> "", password |-> ""]
        ELSE IF set("OCI_TOKEN")
        THEN [type |-> "Bearer", token |-> e.OCI_TOKEN, username |-> "", password |-> ""]
        ELSE IF set("OCI_USERNAME") /\ set("OCI_PASSWORD")
        THEN [type |-> "Basic", token |-> "",
              username |-> e.OCI_USERNAME, password |-> e.OCI_PASSWORD]
        ELSE [type |-> "DefaultKeychain", token |-> "", username |-> "", password |-> ""]

FirstAuthorization(i) ==
    IF req[i].headers.Authorization = <<>> THEN ""
    ELSE req[i].headers.Authorization[1]

\* The authentication of an option, without its kind.
StrategyOf(option) ==
    [type |-> option.type, token |-> option.token,
     username |-> option.username, password |-> option.password]

\* C1: credential resolution yields, for every combination of headers and
\* environment, exactly one strategy, the first that matches of: the token
\* after the "Bearer " prefix of the Authorization header, OCI_TOKEN,
\* OCI_USERNAME with OCI_PASSWORD, the default keychain.  A header Bearer X
\* wins over the environment, a header without the prefix falls through to
\* what the environment alone gives, and resolution never fails: a
\* validated invocation can always resolve.
C1_CredentialPrecedence ==
    \A i \in Invocations :
        /\ pc[i] = "validated" => ENABLED ResolveClient(i)
        /\ Resolved(i) =>
            /\ Len(client[i].options) = 1
            /\ client[i].options[1].kind = "auth"
            /\ StrategyOf(client[i].options[1])
                   = PrecedenceStrategy(FirstAuthorization(i), env)
            /\ FirstAuthorization(i) \in {"Bearer tokA", "Bearer tokB"} =>
                   /\ client[i].options[1].type = "Bearer"
                   /\ "Bearer " \o client[i].options[1].token = FirstAuthorization(i)
            /\ FirstAuthorization(i) \in {"bearer tokA", "Basic dXNlcjpwdw=="} =>
                   StrategyOf(client[i].options[1]) = PrecedenceStrategy("", env)

\* C1's case: a Bearer header and every environment credential are set,
\* and the header's token is the one resolved.
C1_Witness ==
    \E i \in Invocations :
        /\ Resolved(i)
        /\ req[i].headers.Authorization = <<"Bearer tokA">>
        /\ env.OCI_TOKEN = "envtok" /\ env.OCI_USERNAME = "user" /\ env.OCI_PASSWORD = "pw"
        /\ client[i].options[1].token = "tokA"

MissingArgument(i) ==
    \/ req[i].argValue \in {Nil, ""}
    \/ req[i].tool = ListTagsToolName /\ req[i].argName # "repository"
    \/ req[i].tool # ListTagsToolName /\ req[i].argName # "image_ref"

\* C3: an invocation of any of the four tools whose required argument is
\* missing or empty makes no registry request and returns, with a nil
\* error, an error result whose text contains "<argument> is required".
C3_MissingArgumentRejected ==
    \A i \in Invocations :
        (pc[i] # "idle" /\ MissingArgument(i)) =>
            /\ pc[i] = "done"
            /\ calls[i] = <<>>
            /\ reqCtx[i] = "none"
            /\ ret[i].err = Nil
            /\ ~ret[i].result.isNil
            /\ ret[i].result.isError
            /\ Contains(ret[i].result.text,
                        IF req[i].tool = ListTagsToolName
                        THEN "repository is required" ELSE "image_ref is required")

\* C3's case: list_tags called with an empty repository and
\* get_image_config called without image_ref have both returned.
C3_Witness ==
    /\ req[1].tool = ListTagsToolName /\ req[1].argName = "repository"
    /\ req[1].argValue = ""
    /\ req[2].tool = GetImageConfigToolName /\ req[2].argValue = Nil
    /\ pc[1] = "done" /\ pc[2] = "done"
    /\ ret[1].result.text = "repository is required"
    /\ ret[2].result.text = "image_ref is required"

\* The labels the handlers put before an underlying error.
FailureLabels ==
    {"failed to get image", "failed to list tags", "failed to get manifest",
     "failed to get config", "failed to marshal result"}

\* C4: whatever validation, parsing, the registry, decoding and encoding
\* do, a handler that has returned has returned a non-nil result and a nil
\* error; every failure is an error result made of a label and the text of
\* the underlying error (of the required-argument message, for a missing
\* argument), and only failures are error results.
C4_FailuresAreResults ==
    \A i \in Invocations :
        /\ pc[i] # "done" => ret[i] = NoReturn
        /\ pc[i] = "done" =>
            /\ ret[i].err = Nil
            /\ ~ret[i].result.isNil
            /\ handlerErr[i] # Nil =>
                /\ ret[i].result.isError
                /\ \E label \in FailureLabels :
                        ret[i].result.text = label \o ": " \o handlerErr[i]
            /\ MissingArgument(i) =>
                /\ ret[i].result.isError
                /\ ret[i].result.text \in {"image_ref is required", "repository is required"}
            /\ ret[i].result.isError => (handlerErr[i] # Nil \/ MissingArgument(i))

\* C4's case: one invocation has returned a registry failure and the
\* other a config failure, each as an error result.
C4_Witness ==
    \E i, j \in Invocations :
        /\ pc[i] = "done" /\ pc[j] = "done"
        /\ ret[i].result.text = "failed to list tags: listing tags: connection refused"
        /\ ret[j].result.text = "failed to get config: getting config: context canceled"

\* The adapter call of invocation i has been made.
AdapterCalled(i) == pc[i] \in {"fetching", "config", "done"} /\ ~MissingArgument(i)

\* C5: for a malformed image reference, getImage, getManifest and
\* getConfig fail with an error whose message contains "parsing image
\* reference" and the parse failure's text, and no registry request is made.
C5_MalformedReferenceIsParseError ==
    \A i \in Invocations :
        (/\ AdapterCalled(i)
         /\ req[i].tool # ListTagsToolName
         /\ ~ParseReference(req[i].argValue).ok) =>
            /\ pc[i] = "done"
            /\ handlerErr[i] # Nil
            /\ Contains(handlerErr[i], "parsing image reference")
            /\ Contains(handlerErr[i], ParseReference(req[i].argValue).err)
            /\ calls[i] = <<>>
            /\ reqCtx[i] = "none"

\* C5's case: get_image_manifest and get_image_config were both called
\* with "invalid:reference:format" and have returned.
C5_Witness ==
    /\ req[1].tool = GetImageManifestToolName
    /\ req[2].tool = GetImageConfigToolName
    /\ \A i \in Invocations :
        /\ req[i].argName = "image_ref"
        /\ req[i].argValue = "invalid:reference:format"
        /\ pc[i] = "done"
        /\ Contains(ret[i].result.text, "parsing image reference")

\* C6 as stated: for a malformed repository string, listTags fails with a
\* message containing "listing tags".
C6_MalformedRepositoryIsListingError ==
    \A i \in Invocations :
        (/\ AdapterCalled(i)
         /\ req[i].tool = ListTagsToolName
         /\ ~NewRepository(req[i].argValue).ok) =>
            /\ pc[i] = "done"
            /\ handlerErr[i] # Nil
            /\ Contains(handlerErr[i], "listing tags")

\* C6 amended: for a malformed repository string, listTags fails, before
\* any registry request, with a message that starts with "parsing
\* repository name: " and carries the parse failure's text; a message that
\* starts with "listing tags: " is that of a repository string that
\* parsed and whose listing the registry failed.
C6_MalformedRepositoryIsParseError ==
    \A i \in Invocations :
        (AdapterCalled(i) /\ req[i].tool = ListTagsToolName) =>
            /\ ~NewRepository(req[i].argValue).ok =>
                /\ pc[i] = "done"
                /\ handlerErr[i] # Nil
                /\ HasPrefix(handlerErr[i], "parsing repository name: ")
                /\ Contains(handlerErr[i], NewRepository(req[i].argValue).err)
                /\ calls[i] = <<>>
            /\ (handlerErr[i] # Nil /\ HasPrefix(handlerErr[i], "listing tags: ")) =>
                /\ NewRepository(req[i].argValue).ok
                /\ Len(calls[i]) = 1
            /\ (pc[i] = "done" /\ handlerErr[i] # Nil /\ NewRepository(req[i].argValue).ok) =>
                HasPrefix(handlerErr[i], "listing tags: ")

\* C6's case: list_tags has failed on a malformed repository string, and
\* on the well-formed "invalid/repo/format" whose listing failed.
C6_Witness ==
    \E i, j \in Invocations :
        /\ req[i].tool = ListTagsToolName /\ req[j].tool = ListTagsToolName
        /\ req[i].argValue = "invalid:reference:format"
        /\ req[j].argValue = "invalid/repo/format"
        /\ pc[i] = "done" /\ pc[j] = "done"
        /\ HasPrefix(handlerErr[i], "parsing repository name: ")
        /\ handlerErr[j] = "listing tags: connection refused"

(***************************************************************************)
(* Reading a result's text back: the JSON block and the JSON in it.        *)
(***************************************************************************)
RECURSIVE IndexFrom(_, _, _)
\* The first position from i on at which sub occurs in s, or 0.
IndexFrom(s, sub, i) ==
    IF i + Len(sub) - 1 > Len(s) THEN 0
    ELSE IF SubSeq(s, i, i + Len(sub) - 1) = sub THEN i
    ELSE IndexFrom(s, sub, i + 1)

RECURSIVE SplitLines(_)
SplitLines(s) ==
    LET nl == IndexFrom(s, "\n", 1)
    IN  IF nl = 0 THEN <<s>>
        ELSE <<SubSeq(s, 1, nl - 1)>> \o SplitLines(SubSeq(s, nl + 1, Len(s)))

HasSuffix(s, suffix) ==
    /\ Len(s) >= Len(suffix)
    /\ SubSeq(s, Len(s) - Len(suffix) + 1, Len(s)) = suffix

\* A text that is a heading, a blank line and one fenced json block:
\* [ok, heading, json].
ReadBlock(text) ==
    LET open == ":\n\n" \o Fence \o "json\n"
        close == "\n" \o Fence
        at == IndexFrom(text, open, 1)
    IN  IF at = 0 \/ ~HasSuffix(text, close)
        THEN [ok |-> FALSE, heading |-> "", json |-> ""]
        ELSE [ok |-> TRUE, heading |-> SubSeq(text, 1, at - 1),
              json |-> SubSeq(text, at + Len(open), Len(text) - Len(close))]

\* A member line of an indented array or object, without its indentation
\* and without the comma that follows every member but the last.
MemberLine(lines, k) ==
    LET line == lines[k]
        bare == IF k < Len(lines) - 1 /\ HasSuffix(line, ",")
                THEN SubSeq(line, 1, Len(line) - 1) ELSE line
    IN  TrimPrefix(bare, "  ")

\* The strings of an indented JSON array of strings: [ok, elems].
ReadStringArray(json) ==
    LET lines == SplitLines(json)
        n == Len(lines)
        quoted(k) == MemberLine(lines, k)
    IN  IF /\ n >= 3 /\ lines[1] = "[" /\ lines[n] = "]"
           /\ \A k \in 2..(n - 1) :
                /\ HasPrefix(lines[k], "  \"")
                /\ HasSuffix(quoted(k), "\"")
                /\ (k < n - 1) = HasSuffix(lines[k], ",")
        THEN [ok |-> TRUE,
              elems |-> [k \in 1..(n - 2) |->
                            SubSeq(quoted(k + 1), 2, Len(quoted(k + 1)) - 1)]]
        ELSE [ok |-> FALSE, elems |-> <<>>]

\* The members of an indented JSON object of scalars: [ok, keys, values],
\* values[k] the text of the value of keys[k].
ReadObject(json) ==
    LET lines == SplitLines(json)
        n == Len(lines)
        member(k) == MemberLine(lines, k)
        colon(k) == IndexFrom(member(k), "\": ", 1)
    IN  IF /\ n >= 3 /\ lines[1] = "{" /\ lines[n] = "}"
           /\ \A k \in 2..(n - 1) :
                /\ HasPrefix(lines[k], "  \"")
                /\ colon(k) > 0
                /\ (k < n - 1) = HasSuffix(lines[k], ",")
        THEN [ok |-> TRUE,
              keys |-> [k \in 1..(n - 2) |-> SubSeq(member(k + 1), 2, colon(k + 1) - 1)],
              values |-> [k \in 1..(n - 2) |->
                            SubSeq(member(k + 1), colon(k + 1) + 3, Len(member(k + 1)))]]
        ELSE [ok |-> FALSE, keys |-> <<>>, values |-> <<>>]

\* The value text of key in a read object.
ValueOf(object, key) ==
    object.values[CHOOSE k \in 1..Len(object.keys) : object.keys[k] = key]

\* An RFC 3339 date-time: full-date "T" partial-time, then "Z" or a
\* numeric offset.
IsRFC3339(s) ==
    LET digitsAt(positions) == \A p \in positions : Char(s, p) \in Digits
    IN  /\ Len(s) \in {20, 25}
        /\ digitsAt({1, 2, 3, 4, 6, 7, 9, 10, 12, 13, 15, 16, 18, 19})
        /\ Char(s, 5) = "-" /\ Char(s, 8) = "-" /\ Char(s, 11) = "T"
        /\ Char(s, 14) = ":" /\ Char(s, 17) = ":"
        /\ IF Len(s) = 20 THEN Char(s, 20) = "Z"
           ELSE /\ Char(s, 20) \in {"+", "-"}
                /\ digitsAt({21, 22, 24, 25})
                /\ Char(s, 23) = ":"

\* The fields an RFC 3339 date-time writes: [year, month, ..., offset].
ReadRFC3339(s) ==
    LET num(a, b) == DecimalValue(SubSeq(s, a, b))
    IN  [year |-> num(1, 4), month |-> num(6, 7), day |-> num(9, 10),
         hour |-> num(12, 13), minute |-> num(15, 16), second |-> num(18, 19),
         offset |-> IF Len(s) = 20 THEN 0
                    ELSE (IF Char(s, 20) = "-" THEN -1 ELSE 1)
                         * (60 * num(21, 22) + num(24, 25))]

\* C7: when the registry returns no tags, list_tags returns a non-error
\* result whose text is exactly "No tags found for repository <repo>",
\* with no JSON block; when it returns tags, the result is a JSON block
\* holding the array of those tags, in the registry's order, duplicates kept.
C7_ListTagsResultShape ==
    \A i \in Invocations :
        (pc[i] = "done" /\ req[i].tool = ListTagsToolName
            /\ ~MissingArgument(i) /\ handlerErr[i] = Nil) =>
            /\ ~ret[i].result.isError
            /\ IF tags[i] = <<>>
               THEN /\ ret[i].result.text
                          = "No tags found for repository " \o req[i].argValue
                    /\ ~Contains(ret[i].result.text, Fence)
               ELSE LET block == ReadBlock(ret[i].result.text)
                    IN  /\ block.ok
                        /\ block.heading = "Tags for " \o req[i].argValue
                        /\ ReadStringArray(block.json).ok
                        /\ ReadStringArray(block.json).elems = tags[i]

\* C7's case: one list_tags got no tags, the other got the same tag twice
\* (or tags out of alphabetical order), and both have returned.
C7_Witness ==
    \E i, j \in Invocations :
        /\ req[i].tool = ListTagsToolName /\ req[j].tool = ListTagsToolName
        /\ pc[i] = "done" /\ pc[j] = "done"
        /\ handlerErr[i] = Nil /\ handlerErr[j] = Nil
        /\ Len(calls[i]) = 1 /\ Len(calls[j]) = 1
        /\ tags[i] = <<>>
        /\ tags[j] \in {<<"v1", "v1">>, <<"v1", "latest">>}
        /\ ret[i].result.text = "No tags found for repository invalid/repo/format"

\* C8: a successful get_image_info result is a JSON block whose object
\* has exactly the keys digest, size, architecture, os, created, layers:
\* digest and size those of the manifest's config descriptor, layers the
\* number of the manifest's layers, created the config's creation time in
\* RFC 3339; nothing else of the manifest or config is in it.
C8_ImageInfoResultShape ==
    \A i \in Invocations :
        (pc[i] = "done" /\ req[i].tool = GetImageInfoToolName
            /\ ~ret[i].result.isError) =>
            LET block == ReadBlock(ret[i].result.text)
                object == ReadObject(block.json)
                created == ValueOf(object, "created")
                instant == SubSeq(created, 2, Len(created) - 1)
            IN  /\ block.ok
                /\ block.heading = "Image information for " \o req[i].argValue
                /\ object.ok
                /\ Len(object.keys) = 6
                /\ {object.keys[k] : k \in 1..Len(object.keys)}
                       = {"digest", "size", "architecture", "os", "created", "layers"}
                /\ ValueOf(object, "digest")
                       = "\"" \o img[i].manifest.config.digest \o "\""
                /\ ValueOf(object, "size") = ToString(img[i].manifest.config.size)
                /\ ValueOf(object, "layers") = ToString(Len(img[i].manifest.layers))
                /\ ValueOf(object, "architecture")
                       = "\"" \o img[i].config.architecture \o "\""
                /\ ValueOf(object, "os") = "\"" \o img[i].config.os \o "\""
                /\ HasPrefix(created, "\"") /\ HasSuffix(created, "\"")
                /\ IsRFC3339(instant)
                /\ ReadRFC3339(instant) = img[i].config.created

\* C8's case: get_image_info has succeeded on an image of two layers, and
\* on an image created in a zone with an offset.
C8_Witness ==
    \E i, j \in Invocations :
        /\ req[i].tool = GetImageInfoToolName /\ req[j].tool = GetImageInfoToolName
        /\ pc[i] = "done" /\ pc[j] = "done"
        /\ ~ret[i].result.isError /\ ~ret[j].result.isError
        /\ Len(img[i].manifest.layers) = 2
        /\ img[j].config.created.offset # 0
        /\ Len(calls[i]) = 2

(***************************************************************************)
(* The listen port: what a value of MCP_PORT is, read as a numeral.        *)
(***************************************************************************)
\* The value main reads: the empty string when MCP_PORT is unset.
PortText == IF mcpPort = Nil THEN "" ELSE mcpPort

\* A decimal numeral: an optional sign, then one digit or more.
IsNumeral(s) ==
    LET digits == IF s # "" /\ Char(s, 1) \in {"-", "+"} THEN SubSeq(s, 2, Len(s))
                  ELSE s
    IN  digits # "" /\ \A k \in 1..Len(digits) : Char(digits, k) \in Digits

NumeralDigits(s) ==
    TrimLeadingZeros(IF Char(s, 1) \in {"-", "+"} THEN SubSeq(s, 2, Len(s)) ELSE s)

\* A numeral of an integer in [0, 65535].
IsPortNumeral(s) ==
    /\ IsNumeral(s)
    /\ Char(s, 1) = "-" => NumeralDigits(s) = "0"
    /\ ~ExceedsDigits(NumeralDigits(s), "65535")

\* C9: once main has read the port, it is in [0, 65535]: the number
\* MCP_PORT writes when that is an integer in [0, 65535], and 8080 when
\* MCP_PORT is unset, empty, no numeral, negative or greater than 65535.
C9_PortFromEnvironment ==
    portPc = "env" =>
        /\ port \in 0..65535
        /\ IF IsPortNumeral(PortText)
           THEN port = DecimalValue(NumeralDigits(PortText))
           ELSE port = 8080

\* C9's case: MCP_PORT is one past the greatest port and 8080 was returned.
C9_Witness ==
    /\ portPc = "env"
    /\ mcpPort = "65536"
    /\ port = 8080

\* The line getMCPServerPort logs for a rejected value names the value.
NamesValue(line) == Contains(line, "Invalid MCP_PORT value: " \o PortText \o " ")

SaysNotANumber(line) ==
    /\ Contains(line, "must be a valid number")
    /\ ~Contains(line, "must be between 0 and 65535")

SaysOutOfRange(line) ==
    /\ Contains(line, "must be between 0 and 65535")
    /\ ~Contains(line, "must be a valid number")

\* getMCPServerPort has logged exactly when it rejected a value that is
\* not empty: then one line, and none otherwise.
LogsExactlyOnRejection ==
    Len(portLog) = IF PortText # "" /\ ~IsPortNumeral(PortText) THEN 1 ELSE 0

\* C10 as stated: a line is logged exactly when a non-empty MCP_PORT is
\* rejected; it names the value and says that it was no number when it is
\* no numeral, and that it was out of range when it is a numeral outside
\* [0, 65535].
C10_LogNamesNonNumericOrOutOfRange ==
    portPc = "env" =>
        /\ LogsExactlyOnRejection
        /\ Len(portLog) = 1 =>
            /\ NamesValue(portLog[1])
            /\ IF IsNumeral(PortText) THEN SaysOutOfRange(portLog[1])
               ELSE SaysNotANumber(portLog[1])

\* A numeral of an integer that an int holds.
IsIntNumeral(s) ==
    /\ IsNumeral(s)
    /\ ~ExceedsDigits(NumeralDigits(s),
                      IF Char(s, 1) = "-" THEN minIntDigits ELSE maxIntDigits)

\* C10: a line is logged exactly when a non-empty MCP_PORT is rejected; it
\* names the value and says that it was no number when it is no numeral or
\* a numeral beyond the range of int, and that it was out of range when it
\* is an int outside [0, 65535].
C10_LogNamesUnparsedOrOutOfRange ==
    portPc = "env" =>
        /\ LogsExactlyOnRejection
        /\ Len(portLog) = 1 =>
            /\ NamesValue(portLog[1])
            /\ IF IsIntNumeral(PortText) THEN SaysOutOfRange(portLog[1])
               ELSE SaysNotANumber(portLog[1])

\* C10's case: MCP_PORT is a numeral beyond the range of int, and the one
\* line logged says that it must be a valid number.
C10_Witness ==
    /\ portPc = "env"
    /\ mcpPort = "99999999999999999999"
    /\ Len(portLog) = 1
    /\ SaysNotANumber(portLog[1])
    /\ port = 8080

(***************************************************************************)
(* main: the port, the exit and the goroutines.                            *)
(***************************************************************************)
\* The port the environment gives: the number MCP_PORT writes, or 8080.
EnvironmentPort ==
    IF IsPortNumeral(PortText) THEN DecimalValue(NumeralDigits(PortText)) ELSE 8080

\* main has parsed its flags and gone on.
FlagsParsed == portPc = "flags" /\ ~(flagPort.given /\ ~flagPort.ok)

\* C11: once the flags are parsed, the port is the -port flag when that
\* is given and in [0, 65535], the port of MCP_PORT when no flag is given,
\* and 8080, with a line logged that names the flag's value, when the flag
\* is out of range, whatever MCP_PORT holds; the port the server is
\* started on is in [0, 65535].
C11_EffectiveListenPort ==
    FlagsParsed =>
        /\ port \in 0..65535
        /\ ~flagPort.given => port = EnvironmentPort
        /\ (flagPort.given /\ flagPort.value \in 0..65535) => port = flagPort.value
        /\ (flagPort.given /\ flagPort.value \notin 0..65535) =>
                /\ port = 8080
                /\ portLog # <<>>
                /\ HasPrefix(portLog[Len(portLog)],
                       "Invalid port number: " \o ToString(flagPort.value) \o " ")
        /\ (~flagPort.given \/ flagPort.value \in 0..65535) =>
                \A k \in 1..Len(portLog) : ~HasPrefix(portLog[k], "Invalid port number")

\* C11's case: MCP_PORT holds the valid port 3000, the flag 65536, and the
\* server was started on 8080.
C11_Witness ==
    /\ mainPc = "select"
    /\ mcpPort = "3000"
    /\ flagPort = [given |-> TRUE, ok |-> TRUE, value |-> 65536]
    /\ port = 8080

\* sseServer.Start failed to start the transport: its error is in
\* serverErrCh, or main has taken it from there.
StartFailed ==
    \E e \in StartErrors :
        \/ serverErrCh = <<e>>
        \/ exit.message = "Server failed to start: " \o e

\* main has received the outcome of the shutdown from shutdownCh.
ShutdownOutcomeReceived == shutdownSent > Len(shutdownCh)

\* C12 as stated: the process exits with a status that is not 0 if the
\* transport failed to start, and with status 0 after a shutdown, completed
\* in the grace period or forced at its end.
C12_ExitZeroAfterAnyShutdown ==
    exit.done =>
        /\ (mainPc = "select" /\ StartFailed) => exit.status # 0
        /\ mainPc = "shutdown" => exit.status = 0

\* C12: the process exits with status 1 when main takes the transport's
\* failure to start from serverErrCh, which it does whenever the start
\* failed and no termination signal was handled; after a shutdown it exits
\* with status 0 when main received the outcome of the shutdown (nil or an
\* error) and with status 1 when it saw the grace period expire instead.
C12_ExitStatus ==
    exit.done =>
        /\ (mainPc = "select" /\ StartFailed) => exit.status = 1
        /\ (mainPc = "select" /\ portPc = "flags") =>
                /\ exit.status = 1
                /\ HasPrefix(exit.message, "Server failed to start: ")
        /\ (StartFailed /\ ~ctxDone) => exit.status # 0
        /\ mainPc = "shutdown" =>
                IF ShutdownOutcomeReceived THEN exit.status = 0
                ELSE graceExpired /\ exit.status = 1

\* C12's case: the grace period expired with an invocation still in
\* flight and the shutdown not returned, and the process has exited.
C12_Witness ==
    /\ exit.done
    /\ mainPc = "shutdown"
    /\ graceExpired
    /\ active > 0
    /\ shutdownPc = "waiting"
    /\ exit.status = 1

\* C13: once a termination signal was delivered with the server serving,
\* the process eventually exits, and by way of the shutdown: main starts
\* the shutdown and leaves it with its outcome or, when the grace period
\* expires first, by the forced exit, whatever the invocations in flight
\* and sseServer.Shutdown do.
C13_SignalLeadsToExit ==
    (signals > 0 /\ srv = "listening") ~> (exit.done /\ mainPc = "shutdown")

\* C13's case: the signal came with the server serving and invocations in
\* flight that never ended, and the process has exited all the same.
C13_Witness ==
    /\ signals = 1
    /\ listenerPc = "serving"
    /\ active = MaxActive
    /\ mainPc = "shutdown"
    /\ exit.done

\* C20: no send of the lifecycle blocks and a shutdown is never reported
\* as a failure to start: serverErrCh never holds more than the one error
\* the listener goroutine sends, the shutdown goroutine has sent exactly
\* one value when it closes shutdownCh and never more, neither goroutine
\* is ever blocked in its send, and once main has taken the shutdown
\* branch the process does not exit with "Server failed to start", though
\* the listener's error of the closed server lies in serverErrCh.
C20_SendsNeverBlock ==
    /\ listenerPc # "blocked"
    /\ shutdownPc # "blocked"
    /\ Len(serverErrCh) <= 1
    /\ listenerPc \in {"none", "starting", "serving"} => serverErrCh = <<>>
    /\ shutdownSent <= 1
    /\ Len(shutdownCh) <= 1
    /\ shutdownPc = "closed" => shutdownSent = 1
    /\ shutdownPc \in {"none", "running", "waiting"} => shutdownSent = 0
    /\ mainPc = "shutdown" => ~HasPrefix(exit.message, "Server failed to start")
    /\ ErrServerClosed \in {serverErrCh[k] : k \in 1..Len(serverErrCh)} =>
            mainPc = "shutdown"

\* C20's case: main is past its select and has exited after the shutdown,
\* and the listener has sent the error of the closed server to
\* serverErrCh, where nothing receives it.
C20_Witness ==
    /\ mainPc = "shutdown"
    /\ exit.done
    /\ exit.status = 0
    /\ listenerPc = "returned"
    /\ serverErrCh = <<ErrServerClosed>>
    /\ shutdownPc = "closed"

(***************************************************************************)
(* The adapter: contexts, cancellation and retries.                        *)
(***************************************************************************)
\* The context option of a registry request: the adapter appends it last.
ContextOf(call) == call.options[Len(call.options)]

TimedOut(i) ==
    handlerErr[i] # Nil /\ Contains(handlerErr[i], "context deadline exceeded")

C15_CallerCancellationAborts ==
    \A i \in Invocations :
        (callerCtx[i] = "cancelled" /\ pc[i] = "fetching") => reqCtx[i] # "live"

\* The registry operations an invocation has requested, in order.
Operations(i) == [k \in 1..Len(calls[i]) |-> calls[i][k].op]

\* C16: nothing is retried: an invocation requests each registry operation
\* at most once, and one that failed has ended at once with the failure as
\* its result, with no request issued after the failed one.
C16_NoRetry ==
    \A i \in Invocations :
        /\ \A k, n \in 1..Len(calls[i]) : k # n => calls[i][k] # calls[i][n]
        /\ \A k, n \in 1..Len(calls[i]) : k # n => Operations(i)[k] # Operations(i)[n]
        /\ handlerErr[i] # Nil =>
              /\ pc[i] = "done"
              /\ ret[i].result.isError
              /\ HasSuffix(ret[i].result.text, ": " \o handlerErr[i])
        /\ (handlerErr[i] # Nil /\ Contains(handlerErr[i], "listing tags: ")) =>
              Operations(i) = <<"remote.List">>
        /\ (handlerErr[i] # Nil /\ Contains(handlerErr[i], "fetching image: ")) =>
              Operations(i) = <<"remote.Image">>
        /\ (handlerErr[i] # Nil /\ Contains(handlerErr[i], "context canceled")) =>
              Operations(i) = <<"remote.Image", "fetchBlob">>

\* C16's case: both invocations failed at the registry, one in its
\* listing and one in the config fetch after its image request.
C16_Witness ==
    \E i, j \in Invocations :
        /\ pc[i] = "done" /\ pc[j] = "done"
        /\ handlerErr[i] = "listing tags: connection refused"
        /\ Operations(i) = <<"remote.List">>
        /\ handlerErr[j] # Nil
        /\ Operations(j) = <<"remote.Image", "fetchBlob">>

(***************************************************************************)
(* Credential resolution: what the log line depends on.                    *)
(***************************************************************************)
\* A secret that is present, replaced by another; one that is absent, kept.
Replaced(secret, other) == IF secret = Nil \/ secret = "" THEN secret ELSE other

\* The headers with the token of the first Authorization value, when it
\* has the Bearer prefix and a token, replaced by another.
HeadersWithToken(headers, other) ==
    LET values == headers.Authorization
        first == IF values = <<>> THEN "" ELSE values[1]
    IN  IF Len(first) > Len(bearerPrefix) /\ HasPrefix(first, bearerPrefix)
        THEN [Authorization |-> <<bearerPrefix \o other>> \o Tail(values)]
        ELSE headers

\* The inputs that differ from (headers, e) in the values of secrets only:
\* every choice of secrets replaced, each by one of two other values.
SecretVariants(headers, e) ==
    {[headers |-> IF swap[1] = "" THEN headers ELSE HeadersWithToken(headers, swap[1]),
      environ |-> [OCI_TOKEN |-> IF swap[2] = "" THEN e.OCI_TOKEN
                                 ELSE Replaced(e.OCI_TOKEN, swap[2]),
                   OCI_USERNAME |-> IF swap[3] = "" THEN e.OCI_USERNAME
                                    ELSE Replaced(e.OCI_USERNAME, swap[3]),
                   OCI_PASSWORD |-> IF swap[4] = "" THEN e.OCI_PASSWORD
                                    ELSE Replaced(e.OCI_PASSWORD, swap[4])]] :
        swap \in {"", "s3cretX", "s3cretY"} \X {"", "s3cretX"} \X {"", "s3cretX"}
                 \X {"", "s3cretX"}}

\* The words by which a log line names the strategy of an option.
StrategyWords(i) ==
    LET option == client[i].options[1]
    IN  IF option.type = "Basic" THEN "username/password"
        ELSE IF option.type = "DefaultKeychain" THEN "default keychain"
        ELSE IF HasPrefix(FirstAuthorization(i), bearerPrefix)
        THEN "bearer token from Authorization header"
        ELSE "bearer token from OCI_TOKEN environment variable"

\* C17: the resolution of an invocation has logged exactly one line, which
\* names the strategy chosen and is the very line the resolution logs for
\* every input that differs from this one in the values of the token, the
\* username or the password only.
C17_LogIndependentOfSecrets ==
    \A i \in Invocations :
        Resolved(i) =>
            /\ Len(logged[i]) = 1
            /\ Contains(logged[i][1], StrategyWords(i))
            /\ \A v \in SecretVariants(req[i].headers, env) :
                    CreateOCIClientFromHeaders(v.headers, v.environ).log = logged[i]

\* C17's case: two invocations with different tokens in their headers
\* have resolved, to different clients, in an environment full of
\* secrets, and logged the same line.
C17_Witness ==
    /\ Resolved(1) /\ Resolved(2)
    /\ FirstAuthorization(1) = "Bearer tokA"
    /\ FirstAuthorization(2) = "Bearer tokB"
    /\ env = [OCI_TOKEN |-> "envtok", OCI_USERNAME |-> "user", OCI_PASSWORD |-> "pw"]
    /\ client[1] # client[2]
    /\ logged[1] = logged[2]
    /\ Len(logged[1]) = 1

\* C18: every registry request made for an invocation, the fetch of the
\* config through the image handle after GetImage has returned included,
\* is made while the timeout context of its operation is live: the
\* context GetImage attached to the handle is not yet cancelled.
C18_RegistryAccessUnderLiveContext ==
    \A i \in Invocations :
        \A k \in 1..Len(calls[i]) : calls[i][k].ctx = "live"

(***************************************************************************)
(* The adapter on one client.                                              *)
(***************************************************************************)
\* The options of call c as a request of c would read them now.
OptionsRead(c) ==
    IF callOpts[c].aliased THEN handle.options \o <<spare[1]>> ELSE callOpts[c].own

\* C19: calls of the adapter never change the client they are made on:
\* in every order and interleaving of GetImage, GetImageManifest,
\* GetImageConfig and ListTags on one client, the client's options are the
\* one authentication option it was made with, nothing is stored in their
\* backing array, and the request of each call is given those options and
\* then the context of that call, never the context of another call.
C19_ClientNeverMutated ==
    /\ handle.options = CreateOCIClient(env).client.options
    /\ Len(handle.options) = 1
    /\ handle.options[1].kind = "auth"
    /\ \A k \in 1..Len(spare) : spare[k] = NoOption
    /\ \A c \in SharedCalls :
          /\ callPc[c] = "appended" =>
                OptionsRead(c) = handle.options \o <<WithContext(c)>>
          /\ callPc[c] \in {"requested", "returned"} =>
                /\ seen[c] = handle.options \o <<WithContext(c)>>
                /\ \A d \in SharedCalls \ {c} :
                      \A k \in 1..Len(seen[c]) : seen[c][k] # WithContext(d)

\* C19's case: one call has returned, a second has made its request and a
\* third has appended its context, all on the one client, through
\* GetImage and ListTags both.
C19_Witness ==
    \E c, d, f \in SharedCalls :
        /\ callPc[c] = "returned" /\ callOp[c] = "ListTags"
        /\ callPc[d] = "requested" /\ callOp[d] = "GetImageConfig"
        /\ callPc[f] = "appended" /\ callOp[f] = "GetImage"
        /\ handle.options = <<WithBasicAuth("user", "pw")>>

====
